---- MODULE Spec2Model ----
(***************************************************************************)
(* State-machine model of the deep-search agent: Workspace, Agent.run_tool *)
(* and the Agent.run control loop, translated from the Python source.      *)
(***************************************************************************)
EXTENDS Integers, Sequences, FiniteSets, TLC

\* ----------------------------------------------------------------- bounds
MaxModelCalls == 2  \* model invocations of one agent under Spec
MaxLoopCalls == 3   \* model invocations of one agent under SpecLoop
MaxOps == 1         \* entries in one memory_updates list
MaxCalls == 2       \* entries in one tool_calls list
MaxGatherCalls == 2 \* model invocations of one agent under SpecTools
MaxFragments == 2   \* fragments in the final content of a reply
MaxTraceFragments == 1 \* fragments in the reasoning trace of a reply
MaxParseCalls == 2  \* model invocations of one agent under SpecParse
MaxMemoryCalls == 4 \* model invocations of one agent under SpecMemory
MaxLiveRuns == 2    \* invocations of run on one agent under SpecLive
MaxLimit == 2       \* the largest max_rounds passed to run under SpecLive
MaxFailures == 2    \* failed attempts of one agent under SpecLive
MaxNotebookCalls == 3 \* model invocations of one agent under SpecNotebook
MaxEvents == 2      \* webhook POST requests under SpecWebhook and SpecStatus
MaxPosts == 3       \* user-decision POST requests under SpecDecision
MaxDecisionGets == 3 \* user-decision GET requests under SpecDecision
MaxGets == 2        \* search-status GET requests under SpecStatus

\* ------------------------------------------------------- python constants
None == "None"
IN_PROGRESS == "IN_PROGRESS"
FailPrefix == "Tool execution failed: "

\* Values the model may put in the payload.
StatusValues == {IN_PROGRESS, "DONE", "FINISHED"}
AnswerValues == {None, "a1", "a2"}
\* random.choices(string.ascii_lowercase, k=3) and random.choices(
\* string.digits, k=3): the draws considered, as sequences of characters.
LetterDraws == { <<"a", "b", "c">>, <<"x", "y", "z">> }
DigitDraws == { <<"1", "2", "3">> }
\* f"{letters}-{digits}"
BlockIds == { letters \o <<"-">> \o digits : letters \in LetterDraws, digits \in DigitDraws }
\* The id of an operation that carries none (block_op.get("id") is None).
NoId == <<>>
\* max_rounds: Optional[int]; the integer NoLimit stands for Python's None.
NoLimit == -1
MaxRoundsValues == {NoLimit, 0, 2, 5}

\* One entry of memory_updates.  kind "str" is a list entry that is not a
\* JSON object (block_op.get raises AttributeError on it).
BlockOps ==
    { [kind |-> "dict", operation |-> "add", keys |-> {"operation", "content"}, content |-> "c1", id |-> NoId],
      [kind |-> "dict", operation |-> "delete", keys |-> {"operation", "id"}, content |-> None, id |-> <<"a", "b", "c", "-", "1", "2", "3">>],
      [kind |-> "dict", operation |-> "merge", keys |-> {"operation"}, content |-> None, id |-> NoId],
      [kind |-> "str", operation |-> None, keys |-> {}, content |-> None, id |-> NoId] }

\* One entry of tool_calls.
ToolCalls ==
    { [keys |-> {"tool", "input"}, tool |-> "search", input |-> "q"],
      [keys |-> {"tool", "input"}, tool |-> "scrape", input |-> "u"],
      [keys |-> {"tool", "input"}, tool |-> "browse", input |-> "u"] }

SeqsUpTo(S, n) == UNION { [1..k -> S] : k \in 0..n }

\* dict.get(key, default) on a JSON object modelled as a record with a
\* "keys" field naming the keys that are present.
Get(d, key, default) == IF key \in d.keys THEN d[key] ELSE default

\* ---------------------------------------------------------------- Workspace
\* Workspace.__init__: self.state.  blocks is a dict; its insertion order is
\* kept as the order of a sequence of (id, content) entries.
NewWorkspace == [status |-> IN_PROGRESS, blocks |-> <<>>, answer |-> None]

BlockIdsOf(blocks) == { blocks[i].id : i \in 1..Len(blocks) }

\* Workspace.to_string, as the sequence of the string pieces it concatenates.
RECURSIVE BlockLines(_)
BlockLines(blocks) ==
    IF blocks = <<>> THEN <<>>
    ELSE <<"<">> \o Head(blocks).id \o <<">", Head(blocks).content, "</">>
         \o Head(blocks).id \o <<">\n">> \o BlockLines(Tail(blocks))

to_stringNewestFirst(ws) ==
    <<"Status: ", ws.status, "\nMemory: \n">>
    \o (IF ws.blocks = <<>> THEN <<"... no memory blocks ...\n">>
        ELSE BlockLines([i \in 1..Len(ws.blocks) |-> ws.blocks[Len(ws.blocks) + 1 - i]]))

\* Workspace.to_string
to_string(ws) ==
    <<"Status: ", ws.status, "\nMemory: \n">>
    \o (IF ws.blocks = <<>> THEN <<"... no memory blocks ...\n">> ELSE BlockLines(ws.blocks))

_generate_any_block_id(blocks) == BlockIds

\* Workspace._generate_unique_block_id: the ids the random draw can return.
\* (With every id of BlockIds in use the set is empty: the draw never ends.)
_generate_unique_block_id(blocks) == BlockIds \ BlockIdsOf(blocks)

\* self.state["blocks"][new_id] = content: a new key goes last, a key that
\* is present keeps its place and takes the content.
SetBlock(blocks, new_id, content) ==
    IF new_id \in BlockIdsOf(blocks)
      THEN [i \in 1..Len(blocks) |->
              IF blocks[i].id = new_id THEN [id |-> new_id, content |-> content] ELSE blocks[i]]
      ELSE Append(blocks, [id |-> new_id, content |-> content])

DeleteBlockClears(blocks, block_id) ==
    IF block_id \in BlockIdsOf(blocks)
      THEN SelectSeq(blocks, LAMBDA b : b.id # block_id)
      ELSE <<>>

\* del self.state["blocks"][block_id], guarded by membership.
DeleteBlock(blocks, block_id) == SelectSeq(blocks, LAMBDA b : b.id # block_id)

\* The for loop of update_blocks: the set of outcomes [blocks, raised] of
\* applying the operations in order; raised names the exception that ended
\* the loop early (None when the loop ran to its end).
RECURSIVE ApplyBlockOps(_, _)
ApplyBlockOps(blocks, ops) ==
    IF ops = <<>> THEN { [blocks |-> blocks, raised |-> None] }
    ELSE LET block_op == Head(ops) IN
         IF block_op.kind # "dict"
           THEN { [blocks |-> blocks, raised |-> "AttributeError"] }
         ELSE IF Get(block_op, "operation", None) = "add"
           THEN UNION { ApplyBlockOps(
                            SetBlock(blocks, new_id, Get(block_op, "content", "")),
                            Tail(ops))
                        : new_id \in _generate_unique_block_id(blocks) }
         ELSE IF Get(block_op, "operation", None) = "delete"
           THEN ApplyBlockOps(DeleteBlock(blocks, Get(block_op, "id", NoId)), Tail(ops))
         ELSE ApplyBlockOps(blocks, Tail(ops))

update_blocksKeepsDone(ws, status, has_blocks, block_ops, answer) ==
    LET s1 == IF ws.status # IN_PROGRESS THEN ws ELSE [ws EXCEPT !.status = status] IN
    IF ~has_blocks
      THEN { [state |-> s1, raised |-> "TypeError"] }
      ELSE { [state |-> IF r.raised = None /\ answer # None
                          THEN [s1 EXCEPT !.blocks = r.blocks, !.answer = answer]
                          ELSE [s1 EXCEPT !.blocks = r.blocks],
              raised |-> r.raised]
             : r \in ApplyBlockOps(ws.blocks, block_ops) }

update_blocksStoresNone(ws, status, has_blocks, block_ops, answer) ==
    LET s1 == [ws EXCEPT !.status = status] IN
    IF ~has_blocks
      THEN { [state |-> s1, raised |-> "TypeError"] }
      ELSE { [state |-> IF r.raised = None
                          THEN [s1 EXCEPT !.blocks = r.blocks, !.answer = answer]
                          ELSE [s1 EXCEPT !.blocks = r.blocks],
              raised |-> r.raised]
             : r \in ApplyBlockOps(ws.blocks, block_ops) }

\* Workspace.update_blocks(status, blocks, answer): the set of outcomes
\* [state, raised].  has_blocks is FALSE when the blocks argument is None
\* (iterating it raises TypeError after the status has been stored).
update_blocks(ws, status, has_blocks, block_ops, answer) ==
    LET s1 == [ws EXCEPT !.status = status] IN
    IF ~has_blocks
      THEN { [state |-> s1, raised |-> "TypeError"] }
      ELSE { [state |-> IF r.raised = None /\ answer # None
                          THEN [s1 EXCEPT !.blocks = r.blocks, !.answer = answer]
                          ELSE [s1 EXCEPT !.blocks = r.blocks],
              raised |-> r.raised]
             : r \in ApplyBlockOps(ws.blocks, block_ops) }

is_doneOnlyDone(ws) == ws.status = "DONE"

is_done(ws) == ws.status # IN_PROGRESS

\* ------------------------------------------------------------ model output
\* What one call of the reasoning model yields, after the <think> strip and
\* extract_largest_json:
\*   raise      the model client raised (Prompt.run re-raises it)
\*   nojson     the text holds no JSON value (ValueError)
\*   list       the largest JSON value is a non-empty array
\*   emptylist  the largest JSON value is []
\*   dict       the largest JSON value is an object with the keys in "keys"
PayloadKeys == {"status_update", "memory_updates", "tool_calls", "answer"}
KeySets == SUBSET PayloadKeys \cup {{"note"}}

Payload(kind, ks, s, m, t, a) ==
    [kind |-> kind, keys |-> ks,
     status_update |-> IF "status_update" \in ks THEN s ELSE None,
     memory_updates |-> IF "memory_updates" \in ks THEN m ELSE <<>>,
     tool_calls |-> IF "tool_calls" \in ks THEN t ELSE <<>>,
     answer |-> IF "answer" \in ks THEN a ELSE None]

NoResponse == Payload("none", {}, None, <<>>, <<>>, None)

NonObjects ==
    { Payload(k, {}, None, <<>>, <<>>, None) : k \in {"raise", "nojson", "list", "emptylist"} }

AllPayloads ==
    { Payload("dict", ks, s, m, t, a) :
        ks \in KeySets, s \in StatusValues,
        m \in SeqsUpTo(BlockOps, MaxOps),
        t \in SeqsUpTo(ToolCalls, MaxCalls), a \in AnswerValues }

\* The outcomes drawn under Spec: every key set, answer and memory_updates
\* list, with a status that continues and one that ends the loop, and at
\* most one call of the search tool.
ModelOutcomes ==
    NonObjects
    \cup { p \in AllPayloads :
             /\ Len(p.tool_calls) <= 1
             /\ \A i \in 1..Len(p.tool_calls) : p.tool_calls[i].tool = "search"
             /\ p.status_update \in {None, IN_PROGRESS, "DONE"} }

\* The outcomes drawn under SpecTools: a failure of the model client, and
\* every list of tool calls with a status that continues and one that ends
\* the loop, no memory operation and no answer.
GatherOutcomes ==
    { p \in NonObjects : p.kind = "raise" }
    \cup { p \in AllPayloads :
             /\ p.keys = {"status_update", "memory_updates", "tool_calls"}
             /\ p.status_update \in {IN_PROGRESS, "DONE"}
             /\ p.memory_updates = <<>> }

\* The outcomes drawn under SpecLoop: every status and every missing key,
\* with no memory operation and at most one call of the search tool.
LoopOutcomes ==
    NonObjects
    \cup { p \in AllPayloads :
        /\ p.memory_updates = <<>>
        /\ "answer" \notin p.keys
        /\ Len(p.tool_calls) <= 1
        /\ \A i \in 1..Len(p.tool_calls) : p.tool_calls[i].tool = "search" }

TruthyAlways(response_json) == TRUE

\* Python truth value of the parsed value (assert response_json).
Truthy(response_json) ==
    \/ response_json.kind = "list"
    \/ response_json.kind = "dict" /\ response_json.keys # {}

\* ------------------------------------------------------------------ parser
\* A text is a sequence of one-character strings.  A JSON value is a record
\* [t, s, keys, items]: t is "num", "str", "arr" or "obj"; s holds the
\* characters of a number or a string; items the elements of an array or the
\* values of an object, keys the object's keys in insertion order.
Quote == "\""
Whitespace == {" ", "\n"}
Digits == {"1", "2"}
NullValue == [t |-> "null", s |-> <<>>, keys |-> <<>>, items |-> <<>>]
NumValue(s) == [t |-> "num", s |-> s, keys |-> <<>>, items |-> <<>>]
StrValue(s) == [t |-> "str", s |-> s, keys |-> <<>>, items |-> <<>>]
ArrValue(items) == [t |-> "arr", s |-> <<>>, keys |-> <<>>, items |-> items]
ObjValue(keys, items) == [t |-> "obj", s |-> <<>>, keys |-> keys, items |-> items]

CharAt(text, i) == IF i \in 1..Len(text) THEN text[i] ELSE "EOF"

\* The decoder's whitespace skip: the first position from i on that holds no
\* whitespace.
RECURSIVE SkipWs(_, _)
SkipWs(text, i) == IF CharAt(text, i) \in Whitespace THEN SkipWs(text, i + 1) ELSE i

\* The end of the run of digits that starts at i (the number pattern).
RECURSIVE DigitsEnd(_, _)
DigitsEnd(text, i) == IF CharAt(text, i) \in Digits THEN DigitsEnd(text, i + 1) ELSE i

\* scanstring from the character after the opening quote: the position of
\* the closing quote, or 0 when the string is unterminated or holds a
\* control character (strict mode).
RECURSIVE StringEnd(_, _)
StringEnd(text, i) ==
    IF CharAt(text, i) = Quote THEN i
    ELSE IF CharAt(text, i) \in {"EOF", "\n"} THEN 0
    ELSE StringEnd(text, i + 1)

\* dict[key] = value on a dict kept as parallel sequences: a key that is
\* already present keeps its place and takes the new value.
DictSet(keys, items, key, value) ==
    IF \E j \in 1..Len(keys) : keys[j] = key
      THEN [keys |-> keys,
            items |-> [j \in 1..Len(items) |-> IF keys[j] = key THEN value ELSE items[j]]]
      ELSE [keys |-> Append(keys, key), items |-> Append(items, value)]

ParseFailure == [ok |-> FALSE, value |-> NullValue, end |-> 0]

\* scan_once, JSONArray and JSONObject of the decoder: the outcome [ok,
\* value, end] of decoding one value that starts at position i; end is the
\* position after the value.
RECURSIVE scan_once(_, _), JSONArray(_, _, _), JSONObject(_, _, _, _)
scan_once(text, i) ==
    LET c == CharAt(text, i) IN
    IF c = Quote
      THEN LET e == StringEnd(text, i + 1) IN
           IF e = 0 THEN ParseFailure
           ELSE [ok |-> TRUE, value |-> StrValue(SubSeq(text, i + 1, e - 1)), end |-> e + 1]
    ELSE IF c = "{"
      THEN LET j == SkipWs(text, i + 1) IN
           IF CharAt(text, j) = "}"
             THEN [ok |-> TRUE, value |-> ObjValue(<<>>, <<>>), end |-> j + 1]
             ELSE JSONObject(text, j, <<>>, <<>>)
    ELSE IF c = "["
      THEN LET j == SkipWs(text, i + 1) IN
           IF CharAt(text, j) = "]"
             THEN [ok |-> TRUE, value |-> ArrValue(<<>>), end |-> j + 1]
             ELSE JSONArray(text, j, <<>>)
    ELSE IF c \in Digits
      THEN LET e == DigitsEnd(text, i) IN
           [ok |-> TRUE, value |-> NumValue(SubSeq(text, i, e - 1)), end |-> e]
    ELSE ParseFailure

\* The loop of JSONArray: an element at i, then "]" or "," and the next one.
JSONArray(text, i, items) ==
    LET r == scan_once(text, i) IN
    IF ~r.ok THEN ParseFailure
    ELSE LET j == SkipWs(text, r.end) IN
         IF CharAt(text, j) = "]"
           THEN [ok |-> TRUE, value |-> ArrValue(Append(items, r.value)), end |-> j + 1]
         ELSE IF CharAt(text, j) = ","
           THEN JSONArray(text, SkipWs(text, j + 1), Append(items, r.value))
         ELSE ParseFailure

\* The loop of JSONObject: a quoted key at i, ":", a value, then "}" or ","
\* and the next pair.
JSONObject(text, i, keys, items) ==
    IF CharAt(text, i) # Quote THEN ParseFailure
    ELSE LET e == StringEnd(text, i + 1) IN
         IF e = 0 THEN ParseFailure
         ELSE LET c == SkipWs(text, e + 1) IN
              IF CharAt(text, c) # ":" THEN ParseFailure
              ELSE LET r == scan_once(text, SkipWs(text, c + 1)) IN
                   IF ~r.ok THEN ParseFailure
                   ELSE LET d == DictSet(keys, items, SubSeq(text, i + 1, e - 1), r.value)
                            j == SkipWs(text, r.end)
                        IN IF CharAt(text, j) = "}"
                             THEN [ok |-> TRUE, value |-> ObjValue(d.keys, d.items), end |-> j + 1]
                           ELSE IF CharAt(text, j) = ","
                             THEN JSONObject(text, SkipWs(text, j + 1), d.keys, d.items)
                           ELSE ParseFailure

\* decoder.raw_decode(text[next_pos:]), with end as a position of text.
raw_decode(text, next_pos) == scan_once(text, next_pos)

\* next_json_position: the first position from pos on that holds "{" or "[",
\* 0 when there is none.
RECURSIVE next_json_position(_, _)
next_json_position(text, pos) ==
    IF pos > Len(text) THEN 0
    ELSE IF text[pos] \in {"{", "["} THEN pos
    ELSE next_json_position(text, pos + 1)

\* extract_json_values: the values yielded, in order.
RECURSIVE ScanFrom(_, _, _)
ScanFrom(text, pos, found) ==
    LET next_pos == next_json_position(text, pos) IN
    IF next_pos = 0 THEN found
    ELSE LET r == raw_decode(text, next_pos) IN
         IF r.ok THEN ScanFrom(text, r.end, Append(found, r.value))
         ELSE ScanFrom(text, next_pos + 1, found)

extract_json_valuesUntilFailure(text) ==
    LET next_pos == next_json_position(text, 1) IN
    IF next_pos = 0 THEN <<>>
    ELSE LET r == raw_decode(text, next_pos) IN
         IF r.ok THEN ScanFrom(text, r.end, <<r.value>>) ELSE <<>>

\* extract_json_values(text), as the list of the values it yields.
extract_json_values(text) == ScanFrom(text, 1, <<>>)

\* len(json.dumps(x)): the separators are ", " and ": ".
RECURSIVE DumpsLen(_), SumDumpsLen(_)
DumpsLen(x) ==
    IF x.t = "num" THEN Len(x.s)
    ELSE IF x.t = "str" THEN Len(x.s) + 2
    ELSE IF x.t = "arr"
      THEN 2 + SumDumpsLen(x.items) + (IF x.items = <<>> THEN 0 ELSE 2 * (Len(x.items) - 1))
    ELSE 2 + SumDumpsLen(x.items) + SumDumpsLen([j \in 1..Len(x.keys) |-> StrValue(x.keys[j])])
           + (IF x.items = <<>> THEN 0 ELSE 2 * Len(x.items) + 2 * (Len(x.items) - 1))

SumDumpsLen(xs) == IF xs = <<>> THEN 0 ELSE DumpsLen(Head(xs)) + SumDumpsLen(Tail(xs))

FirstFound(best, rest) == best

\* max(json_values, key=...): the first value of the greatest key.
RECURSIVE MaxByDumps(_, _)
MaxByDumps(best, rest) ==
    IF rest = <<>> THEN best
    ELSE MaxByDumps(IF DumpsLen(Head(rest)) > DumpsLen(best) THEN Head(rest) ELSE best,
                    Tail(rest))

extract_largest_jsonOrEmpty(text) ==
    LET json_values == extract_json_values(text) IN
    IF json_values = <<>>
      THEN [raised |-> None, value |-> ObjValue(<<>>, <<>>)]
      ELSE [raised |-> None, value |-> MaxByDumps(Head(json_values), Tail(json_values))]

\* extract_largest_json: [raised, value]; raised is "ValueError" when no
\* value was found.
extract_largest_json(text) ==
    LET json_values == extract_json_values(text) IN
    IF json_values = <<>>
      THEN [raised |-> "ValueError", value |-> NullValue]
      ELSE [raised |-> None, value |-> MaxByDumps(Head(json_values), Tail(json_values))]

\* re.sub(r"(?:<think>)?.*?</think>", "", response, flags=re.DOTALL): every
\* match starts where the previous one ended and runs to the next closing
\* tag, so what is left is the text after the last closing tag.
CloseTag == <<"<", "/", "t", "h", "i", "n", "k", ">">>
OpenTag == <<"<", "t", "h", "i", "n", "k", ">">>

CloseTagEnds(text) ==
    { i \in 1..Len(text) : i >= Len(CloseTag) /\ SubSeq(text, i - Len(CloseTag) + 1, i) = CloseTag }

StripThink(text) ==
    IF CloseTagEnds(text) = {} THEN text
    ELSE LET last == CHOOSE i \in CloseTagEnds(text) : \A j \in CloseTagEnds(text) : j <= i
         IN SubSeq(text, last + 1, Len(text))

\* -------------------------------------------------------------------- Agent
VARIABLES
    pc,            \* where Agent.run stands: idle, sleep20, model, gather, sleep10, returned
    loop,          \* argument of the current run
    max_rounds,    \* argument of the current run
    round,         \* self.round
    workspace,     \* self.workspace.state
    tool_records,  \* self.tool_records: [isNone, items]
    prompt,        \* prompt variables of the last rendered prompt
    response,      \* outcome of the model call of the current attempt
    tasks,         \* the run_tool tasks handed to asyncio.gather
    failure,       \* exception caught by the except clause of the current attempt
    runs,          \* history: invocations of run on this agent
    round0,        \* history: self.round when the current run was invoked
    modelCalls,    \* history: invocations of the model
    applied,       \* history: responses for which update_blocks changed the workspace
    attempts,      \* history: exceptions of the failed attempts of the current round
    round_start,   \* history: workspace, tool records and applied when the round began
    overtaken,     \* history: a call of the last dispatch finished before an earlier one
    parse_pc,      \* where one model response stands: off, request, response, cleaned, parsed, raised
    think_content, \* choices[0].message.reasoning of the reply: [isNone, text]
    content,       \* choices[0].message.content of the reply
    response_text, \* the local variable response of Agent.run, a text
    extracted,     \* outcome of extract_largest_json: [raised, value]
    memoryStore,   \* frontend: memoryStorage of every server instance, by search id
    arrays,        \* frontend: the iterations arrays the memory records refer to
    redisStore,    \* frontend: Upstash Redis, by search id
    blobStore,     \* frontend: Vercel Blob, by search id
    handlers,      \* frontend: webhook POST handlers awaiting a store
    events,        \* history: webhook POST requests received
    postResponse,  \* frontend: the last response of the webhook POST handler
    getter,        \* frontend: the search-status GET handler
    gets,          \* history: search-status GET requests received
    returned,      \* history: the iterations of the last record the GET returned
    pushedSince,   \* history: iterations accepted since that GET
    otherSince,    \* history: an event of another type arrived since that GET
    redisWrites,   \* history: the handlers whose record Redis stored, in the order it did
    userDecisions, \* user-decision route: the Map, search id -> action
    timeouts,      \* the callbacks of setTimeout still to run, oldest first
    decisionResponse, \* the response to the last user-decision request
    posts,         \* user-decision POST requests received
    decisionGets,  \* user-decision GET requests received
    storedBy,      \* history: the POST whose action the Map holds for an id
    awaited        \* history: the last valid POST for an id no GET has followed

agentVars == <<pc, loop, max_rounds, round, workspace, tool_records, prompt, response,
               tasks, failure, runs, round0, modelCalls, applied, attempts, round_start,
               overtaken>>

parseVars == <<parse_pc, think_content, content, response_text, extracted>>

decisionVars == <<userDecisions, timeouts, decisionResponse, posts, decisionGets, storedBy,
                  awaited>>

webVars == <<memoryStore, arrays, redisStore, blobStore, handlers, events, postResponse,
             getter, gets, returned, pushedSince, otherSince, redisWrites, decisionVars>>

vars == <<agentVars, parseVars, webVars>>

NoRecords == [isNone |-> TRUE, items |-> <<>>]
NoPrompt == [workspace |-> <<>>, tool_records |-> NoRecords]

\* The tools registry of Agent and the assert of run_tool.
LegalTools == {"search", "scrape"}

StartTaskNoAssert(call) ==
    [state |-> "pending", invoked |-> TRUE, raised |-> FALSE, value |-> <<>>, output |-> <<>>]

\* run_tool up to its first suspension: an illegal tool id fails the assert
\* and the coroutine returns the failure text at once; otherwise the tool is
\* invoked and the task waits for it.
StartTask(call) ==
    IF call.tool \in LegalTools
      THEN [state |-> "pending", invoked |-> TRUE, raised |-> FALSE,
            value |-> <<>>, output |-> <<>>]
      ELSE [state |-> "done", invoked |-> FALSE, raised |-> TRUE,
            value |-> <<"Illegal tool: ", call.tool>>,
            output |-> <<FailPrefix, "Illegal tool: ", call.tool>>]

FinishTaskNoPrefix(task, raised, value) ==
    [task EXCEPT !.state = "done", !.raised = raised, !.value = value, !.output = value]

\* run_tool from the tool's completion: the result is returned as it is, an
\* exception e becomes the text "Tool execution failed: {e}".
FinishTask(task, raised, value) ==
    [task EXCEPT !.state = "done", !.raised = raised, !.value = value,
                 !.output = IF raised THEN <<FailPrefix>> \o value ELSE value]

\* What the tool of a call can yield: its result text for the call's input,
\* or an exception with a message.
ToolOutcomes(call) ==
    { [raised |-> FALSE, value |-> <<"result of ", call.tool, call.input>>],
      [raised |-> TRUE, value |-> <<"Failed to fetch ", call.input>>] }

ModelRaisedDirty(ws) ==
    { [workspace |-> [ws EXCEPT !.status = "ERROR"], raised |-> "Exception", updated |-> FALSE] }

ModelRaisedStored(ws) ==
    { [workspace |-> [ws EXCEPT !.answer = "Exception"], raised |-> "Exception", updated |-> FALSE] }

\* Prompt.run re-raises the exception of the model client: the try block is
\* left before anything was parsed or applied.
ModelRaised(ws) == { [workspace |-> ws, raised |-> "Exception", updated |-> FALSE] }

TryBlockDeferred(ws, response_json) ==
    { [workspace |-> ws, raised |-> None, updated |-> TRUE] }

\* The body of the try block of Agent.run from the return of the model call
\* to the await of asyncio.gather: the set of outcomes [workspace, raised,
\* updated]; raised names the exception that left the block (None when the
\* tasks were created), updated tells whether update_blocks was entered.
TryBlock(ws, response_json) ==
    IF response_json.kind = "raise"
      THEN ModelRaised(ws)
    ELSE IF response_json.kind = "nojson"
      THEN { [workspace |-> ws, raised |-> "ValueError", updated |-> FALSE] }
    ELSE IF ~Truthy(response_json)
      THEN { [workspace |-> ws, raised |-> "AssertionError", updated |-> FALSE] }
    ELSE IF response_json.kind = "list"
      THEN { [workspace |-> ws, raised |-> "AttributeError", updated |-> FALSE] }
    ELSE { [workspace |-> u.state,
            raised |-> IF u.raised # None THEN u.raised
                       ELSE IF "tool_calls" \notin response_json.keys THEN "AssertionError"
                       ELSE IF \E i \in 1..Len(response_json.tool_calls) :
                                  ~({"tool", "input"} \subseteq response_json.tool_calls[i].keys)
                              THEN "KeyError"
                       ELSE None,
            updated |-> TRUE]
           : u \in update_blocks(ws,
                                 Get(response_json, "status_update", IN_PROGRESS),
                                 "memory_updates" \in response_json.keys,
                                 Get(response_json, "memory_updates", <<>>),
                                 Get(response_json, "answer", None)) }

RoundLimitNever(m, r) == FALSE

RoundLimitCountsZero(m, r) == m # NoLimit /\ r > m

\* if max_rounds and self.round > max_rounds
RoundLimitReached(m, r) == m # NoLimit /\ m # 0 /\ r > m

StopsIgnoringLoop(l, m, r, ws) == RoundLimitReached(m, r) \/ is_done(ws)

StopsIgnoringDone(l, m, r, ws) == RoundLimitReached(m, r) \/ ~l

\* The three breaks after self.round += 1.
Stops(l, m, r, ws) == RoundLimitReached(m, r) \/ ~l \/ is_done(ws)

AfterFailureBreak == "returned"

\* except Exception: ... continue -- where a failed attempt goes.
AfterFailure == "sleep10"

AnyDone(ts) == ts = <<>> \/ \E i \in 1..Len(ts) : ts[i].state = "done"

\* await asyncio.gather(*tasks) resumes when every task has returned.
AllDone(ts) == \A i \in 1..Len(ts) : ts[i].state = "done"

MakeRecordsReversed(tool_calls, tool_outputs) ==
    [i \in 1..Len(tool_calls) |->
        [tool |-> tool_calls[i].tool, input |-> tool_calls[i].input,
         output |-> tool_outputs[Len(tool_calls) + 1 - i].output]]

MakeRecordsAppended(tool_calls, tool_outputs) ==
    tool_records.items
    \o [i \in 1..Len(tool_calls) |->
          [tool |-> tool_calls[i].tool, input |-> tool_calls[i].input,
           output |-> tool_outputs[i].output]]

\* zip(tool_calls, tool_outputs) into {**call, "output": output}.
MakeRecords(tool_calls, tool_outputs) ==
    [i \in 1..Len(tool_calls) |->
        [tool |-> tool_calls[i].tool, input |-> tool_calls[i].input,
         output |-> tool_outputs[i].output]]

\* The macro format_tool_results of the prompt template, as the sequence of
\* the string pieces it writes: a line break after the macro tag, for every
\* record the text between the for tag and the endfor tag, and the line
\* break after the endfor tag.
\* (Fence stands for the line of three backquotes of the template.)
Fence == "fence"

RECURSIVE FormatRecordsFrom(_, _)
FormatRecordsFrom(items, i) ==
    IF i > Len(items) THEN <<>>
    ELSE <<"\nSource ", ToString(i), ": ", items[i].tool, ": ", items[i].input,
           "\nResult:\n", Fence, "\n">> \o items[i].output \o <<"\n", Fence, "\n">>
         \o FormatRecordsFrom(items, i + 1)

format_tool_results(items) == <<"\n">> \o FormatRecordsFrom(items, 1) \o <<"\n">>

NoToolResultsMarker == "... no previous tool results ..."

\* {{ format_tool_results(tool_records) if tool_records else '...' }}: None
\* and the empty list are both false.
ToolResultsSection(records) ==
    IF ~records.isNone /\ records.items # <<>>
      THEN format_tool_results(records.items)
      ELSE <<NoToolResultsMarker>>

AgentInit ==
    /\ pc = "idle"
    /\ loop = TRUE
    /\ max_rounds = NoLimit
    /\ round = 0
    /\ workspace = NewWorkspace
    /\ tool_records = NoRecords
    /\ prompt = NoPrompt
    /\ response = NoResponse
    /\ tasks = <<>>
    /\ failure = None
    /\ runs = 0
    /\ round0 = 0
    /\ modelCalls = 0
    /\ applied = 0
    /\ attempts = <<>>
    /\ round_start = [workspace |-> NewWorkspace, tool_records |-> NoRecords, applied |-> 0]
    /\ overtaken = FALSE

NotExtracted == [raised |-> None, value |-> NullValue]

\* ----------------------------------------------------- frontend constants
\* The server instances that hold a memoryStorage of their own, the search
\* ids of the requests, and the id of a request without the id parameter.
Instances == {"i1", "i2"}
SearchIds == {"s1"}
NoSearchId == "null"

\* A stored search record: its status and its iterations; NoRecord is the
\* undefined or null a store yields for an id it does not hold.
NoRecord == [present |-> FALSE, status |-> "none", iterations |-> <<>>]
Record(status, iterations) == [present |-> TRUE, status |-> status, iterations |-> iterations]

\* A record of memoryStorage: its iterations are a reference into arrays.
NoMemoryRecord == [present |-> FALSE, status |-> "none", ref |-> 0]

\* The webhook payloads: the type of the event ("progress" is a type the
\* handler does not know) and its data -- "none" for no data, "plain" for
\* data without an iterations field, "iterations" for data whose iterations
\* field is the empty list.
EventTypes == {"start", "iteration", "complete", "timeout", "error", "progress"}
TerminalStatuses == {"completed", "timeout", "error"}
WebhookEvents ==
    { [type |-> "start", data |-> "plain"], [type |-> "error", data |-> "plain"],
      [type |-> "progress", data |-> "plain"],
      [type |-> "iteration", data |-> "plain"], [type |-> "iteration", data |-> "none"],
      [type |-> "complete", data |-> "plain"], [type |-> "complete", data |-> "iterations"],
      [type |-> "timeout", data |-> "plain"] }

NoPostResponse == [hid |-> 0, code |-> 0, status |-> "none", log |-> <<>>]
IdleGetter == [pc |-> "idle", inst |-> "i1", id |-> NoSearchId, code |-> 0,
               data |-> NoRecord, source |-> "none", failed |-> {}, quiet |-> TRUE]
NothingReturned == <<0>>

\* The module state of a freshly started frontend: every store is empty.
\* The user-decision route: what the Map answers for an absent key, the
\* action values a POST body carries (none, empty, unknown, valid), and the
\* response before any request.
NoDecision == "undefined"
ValidActions == {"continue", "finalize"}
PostedActions == ValidActions \cup {NoDecision, "", "stop"}
NoDecisionResponse == [method |-> "none", id |-> NoSearchId, code |-> 0, action |-> NoDecision]
NotAwaited == [post |-> 0, action |-> NoDecision, expired |-> FALSE]

FrontendInit ==
    /\ userDecisions = [id \in SearchIds |-> NoDecision]
    /\ timeouts = <<>>
    /\ decisionResponse = NoDecisionResponse
    /\ posts = 0
    /\ decisionGets = 0
    /\ storedBy = [id \in SearchIds |-> 0]
    /\ awaited = [id \in SearchIds |-> NotAwaited]
    /\ memoryStore = [i \in Instances |-> [id \in SearchIds |-> NoMemoryRecord]]
    /\ arrays = <<>>
    /\ redisStore = [id \in SearchIds |-> NoRecord]
    /\ blobStore = [id \in SearchIds |-> NoRecord]
    /\ handlers = {}
    /\ events = 0
    /\ postResponse = NoPostResponse
    /\ getter = IdleGetter
    /\ gets = 0
    /\ returned = NothingReturned
    /\ pushedSince = <<>>
    /\ otherSince = FALSE
    /\ redisWrites = <<>>

\* The agent specifications leave the text of the model's replies aside.
Init ==
    /\ AgentInit
    /\ parse_pc = "off"
    /\ think_content = [isNone |-> TRUE, text |-> <<>>]
    /\ content = <<>>
    /\ response_text = <<>>
    /\ extracted = NotExtracted
    /\ FrontendInit

runChecksStopFirst(budget, loops, limits) ==
    /\ pc \in {"idle", "returned"}
    /\ modelCalls < budget
    /\ \E l \in loops, m \in limits :
          /\ loop' = l
          /\ max_rounds' = m
          /\ pc' = IF RoundLimitReached(m, round) \/ is_done(workspace)
                     THEN "returned" ELSE "sleep20"
    /\ runs' = runs + 1
    /\ round0' = round
    /\ UNCHANGED <<round, workspace, tool_records, prompt, response, tasks, failure,
                   modelCalls, applied, attempts, round_start, overtaken>>
    /\ UNCHANGED <<parseVars, webVars>>

runOnFreshAgent(budget, loops, limits) ==
    /\ pc \in {"idle", "returned"}
    /\ modelCalls < budget
    /\ \E l \in loops, m \in limits :
          /\ loop' = l
          /\ max_rounds' = m
    /\ pc' = "sleep20"
    /\ runs' = runs + 1
    /\ round' = 0
    /\ round0' = 0
    /\ workspace' = NewWorkspace
    /\ tool_records' = NoRecords
    /\ UNCHANGED <<prompt, response, tasks, failure,
                   modelCalls, applied, attempts, round_start, overtaken>>
    /\ UNCHANGED <<parseVars, webVars>>

\* await agent.run(loop, max_rounds) on an agent that is not running.
run(budget, loops, limits) ==
    /\ pc \in {"idle", "returned"}
    /\ modelCalls < budget
    /\ \E l \in loops, m \in limits :
          /\ loop' = l
          /\ max_rounds' = m
    /\ pc' = "sleep20"
    /\ runs' = runs + 1
    /\ round0' = round
    /\ UNCHANGED <<round, workspace, tool_records, prompt, response, tasks, failure,
                   modelCalls, applied, attempts, round_start, overtaken>>
    /\ UNCHANGED <<parseVars, webVars>>

\* asyncio.sleep(20) ends: the prompt is rendered from the workspace and the
\* tool records, and the model is called.
InvokeModelCall(budget) ==
    /\ pc = "sleep20"
    /\ modelCalls < budget
    /\ prompt' = [workspace |-> to_string(workspace), tool_records |-> tool_records]
    /\ pc' = "model"
    /\ modelCalls' = modelCalls + 1
    /\ round_start' = IF attempts = <<>>
                        THEN [workspace |-> workspace, tool_records |-> tool_records,
                              applied |-> applied]
                        ELSE round_start
    /\ UNCHANGED <<loop, max_rounds, round, workspace, tool_records, response, tasks,
                   failure, runs, round0, applied, attempts, overtaken>>

InvokeModel(budget) ==
    /\ InvokeModelCall(budget)
    /\ UNCHANGED <<parseVars, webVars>>

\* The model call returns or raises; the try block runs up to the gather or
\* to the except clause.
ModelResponds(outcomes) ==
    /\ pc = "model"
    /\ \E response_json \in outcomes :
         \E r \in TryBlock(workspace, response_json) :
            /\ response' = response_json
            /\ workspace' = r.workspace
            /\ applied' = IF r.updated THEN applied + 1 ELSE applied
            /\ IF r.raised = None
                 THEN /\ tasks' = [i \in 1..Len(response_json.tool_calls) |->
                                      StartTask(response_json.tool_calls[i])]
                      /\ pc' = "gather"
                      /\ overtaken' = FALSE
                      /\ UNCHANGED <<failure, attempts>>
                 ELSE /\ failure' = r.raised
                      /\ attempts' = Append(attempts, r.raised)
                      /\ pc' = AfterFailure
                      /\ UNCHANGED <<tasks, overtaken>>
    /\ UNCHANGED <<loop, max_rounds, round, tool_records, prompt, runs, round0, modelCalls,
                   round_start>>
    /\ UNCHANGED <<parseVars, webVars>>

\* The outcomes drawn under SpecMemory: a failure of the model client, and
\* every list of memory operations (additions with two contents, deletions
\* of either id, an operation the loop ignores) with a status that
\* continues, no tool call and no answer.
MemoryOps ==
    { op \in BlockOps : op.kind = "dict" }
    \cup { [kind |-> "dict", operation |-> "add", keys |-> {"operation", "content"}, content |-> "c2", id |-> NoId],
           [kind |-> "dict", operation |-> "delete", keys |-> {"operation", "id"}, content |-> None, id |-> <<"x", "y", "z", "-", "1", "2", "3">>] }

MemoryOutcomes ==
    { p \in NonObjects : p.kind = "raise" }
    \cup { Payload("dict", {"status_update", "memory_updates", "tool_calls"}, IN_PROGRESS, m, <<>>, None)
             : m \in SeqsUpTo(MemoryOps, MaxOps) }

\* The outcomes drawn under SpecNotebook: a failure of the model client, and
\* responses that add at most MaxOps blocks and call the search tool at most
\* once, with a status that continues and one that finishes.
NotebookOutcomes ==
    { p \in NonObjects : p.kind = "raise" }
    \cup { p \in AllPayloads :
             /\ p.keys = {"status_update", "memory_updates", "tool_calls"}
             /\ p.status_update \in {IN_PROGRESS, "DONE"}
             /\ \A i \in 1..Len(p.memory_updates) : p.memory_updates[i].operation = "add"
             /\ Len(p.tool_calls) <= 1
             /\ \A i \in 1..Len(p.tool_calls) : p.tool_calls[i].tool = "search" }

\* One invoked tool returns or raises; run_tool turns it into an output.
ToolCompletes ==
    /\ pc = "gather"
    /\ \E i \in 1..Len(tasks) :
          /\ tasks[i].state = "pending"
          /\ \E o \in ToolOutcomes(response.tool_calls[i]) :
                tasks' = [tasks EXCEPT ![i] = FinishTask(tasks[i], o.raised, o.value)]
          /\ overtaken' = (overtaken \/ \E j \in 1..(i - 1) : tasks[j].state = "pending")
    /\ UNCHANGED <<pc, loop, max_rounds, round, workspace, tool_records, prompt,
                   response, failure, runs, round0, modelCalls, applied, attempts,
                   round_start>>
    /\ UNCHANGED <<parseVars, webVars>>

\* asyncio.gather returns: the records are stored, the round is counted and
\* the stop conditions are evaluated.
GatherReturns ==
    /\ pc = "gather"
    /\ AllDone(tasks)
    /\ tool_records' = [isNone |-> FALSE, items |-> MakeRecords(response.tool_calls, tasks)]
    /\ round' = round + 1
    /\ pc' = IF Stops(loop, max_rounds, round + 1, workspace) THEN "returned" ELSE "sleep20"
    /\ tasks' = <<>>
    /\ response' = NoResponse
    /\ attempts' = <<>>
    /\ UNCHANGED <<loop, max_rounds, workspace, prompt, failure, runs, round0,
                   modelCalls, applied, round_start, overtaken>>
    /\ UNCHANGED <<parseVars, webVars>>

\* except Exception: asyncio.sleep(10) ends, continue.
Backoff ==
    /\ pc = "sleep10"
    /\ pc' = "sleep20"
    /\ response' = NoResponse
    /\ failure' = None
    /\ UNCHANGED <<loop, max_rounds, round, workspace, tool_records, prompt, tasks,
                   runs, round0, modelCalls, applied, attempts, round_start, overtaken>>
    /\ UNCHANGED <<parseVars, webVars>>

Next ==
    \/ run(MaxModelCalls, {TRUE}, {NoLimit})
    \/ InvokeModel(MaxModelCalls)
    \/ ModelResponds(ModelOutcomes)
    \/ ToolCompletes
    \/ GatherReturns
    \/ Backoff

Spec == Init /\ [][Next]_vars

NextLoop ==
    \/ run(MaxLoopCalls, BOOLEAN, MaxRoundsValues)
    \/ InvokeModel(MaxLoopCalls)
    \/ ModelResponds(LoopOutcomes)
    \/ ToolCompletes
    \/ GatherReturns
    \/ Backoff

SpecLoop == Init /\ [][NextLoop]_vars

NextTools ==
    \/ run(MaxGatherCalls, {TRUE}, {NoLimit})
    \/ InvokeModel(MaxGatherCalls)
    \/ ModelResponds(GatherOutcomes)
    \/ ToolCompletes
    \/ GatherReturns
    \/ Backoff

SpecTools == Init /\ [][NextTools]_vars

NextMemory ==
    \/ run(MaxMemoryCalls, {TRUE}, {NoLimit})
    \/ InvokeModel(MaxMemoryCalls)
    \/ ModelResponds(MemoryOutcomes)
    \/ GatherReturns
    \/ Backoff

SpecMemory == Init /\ [][NextMemory]_vars

\* The notebook's cells: await agent.run(loop=False), again and again on the
\* same agent.
NextNotebook ==
    \/ run(MaxNotebookCalls, {FALSE}, {NoLimit})
    \/ InvokeModel(MaxNotebookCalls)
    \/ ModelResponds(NotebookOutcomes)
    \/ ToolCompletes
    \/ GatherReturns
    \/ Backoff

SpecNotebook == Init /\ [][NextNotebook]_vars

\* A run with a round limit, under a model that fails finitely often: the
\* attempts that ended in the except clause so far, the responses that pass
\* the try block, and the calls the agent can need (every run makes at most
\* max_rounds + 1 successful calls).
FailedCalls == modelCalls - round - (IF pc \in {"model", "gather"} THEN 1 ELSE 0)

LiveOutcomes ==
    { p \in LoopOutcomes :
        \/ p.kind \in {"raise", "nojson"}
        \/ /\ p.kind = "dict"
           /\ p.keys = {"status_update", "memory_updates", "tool_calls"}
           /\ p.status_update \in {IN_PROGRESS, "DONE"} }

ValidOutcomes(ws) ==
    { p \in LiveOutcomes : \A r \in TryBlock(ws, p) : r.raised = None }

LiveCalls == MaxLiveRuns * (MaxLimit + 1) + MaxFailures

runLive ==
    /\ runs < MaxLiveRuns
    /\ run(LiveCalls, {TRUE}, 1..MaxLimit)

ModelRespondsLive ==
    ModelResponds(IF FailedCalls < MaxFailures THEN LiveOutcomes ELSE ValidOutcomes(workspace))

NextLive ==
    \/ runLive
    \/ InvokeModel(LiveCalls)
    \/ ModelRespondsLive
    \/ ToolCompletes
    \/ GatherReturns
    \/ Backoff

\* The event loop resumes the coroutine of run whenever its sleep, its model
\* call or its gather is over, and every tool call ends (by its result, its
\* time-out or another exception).
SpecLive ==
    /\ Init /\ [][NextLive]_vars
    /\ WF_vars(InvokeModel(LiveCalls))
    /\ WF_vars(ModelRespondsLive)
    /\ WF_vars(ToolCompletes)
    /\ WF_vars(GatherReturns)
    /\ WF_vars(Backoff)

\* ------------------------------------------------- one reply of the model
\* The str of a sequence of characters, for the strings the agent looks at;
\* every other text is a string the agent gives no meaning to.
StrOf(chars) ==
    IF chars = <<"s", "t", "a", "t", "u", "s", "_", "u", "p", "d", "a", "t", "e">> THEN "status_update" ELSE
    IF chars = <<"m", "e", "m", "o", "r", "y", "_", "u", "p", "d", "a", "t", "e", "s">> THEN "memory_updates" ELSE
    IF chars = <<"t", "o", "o", "l", "_", "c", "a", "l", "l", "s">> THEN "tool_calls" ELSE
    IF chars = <<"a", "n", "s", "w", "e", "r">> THEN "answer" ELSE
    IF chars = <<"I", "N", "_", "P", "R", "O", "G", "R", "E", "S", "S">> THEN "IN_PROGRESS" ELSE
    IF chars = <<"D", "O", "N", "E">> THEN "DONE" ELSE
    IF chars = <<"o", "p", "e", "r", "a", "t", "i", "o", "n">> THEN "operation" ELSE
    IF chars = <<"c", "o", "n", "t", "e", "n", "t">> THEN "content" ELSE
    IF chars = <<"i", "d">> THEN "id" ELSE
    IF chars = <<"a", "d", "d">> THEN "add" ELSE
    IF chars = <<"d", "e", "l", "e", "t", "e">> THEN "delete" ELSE
    IF chars = <<"t", "o", "o", "l">> THEN "tool" ELSE
    IF chars = <<"i", "n", "p", "u", "t">> THEN "input" ELSE
    IF chars = <<"s", "e", "a", "r", "c", "h">> THEN "search" ELSE
    IF chars = <<"s", "c", "r", "a", "p", "e">> THEN "scrape" ELSE
    "other"

\* obj[name] of a parsed object, for a name the object has.
ItemAt(x, name) == x.items[CHOOSE j \in 1..Len(x.keys) : StrOf(x.keys[j]) = name]

NamesOf(x) == { StrOf(x.keys[j]) : j \in 1..Len(x.keys) }

\* An entry of a parsed memory_updates list: an entry that is not an object
\* has no get method (kind "str").
BlockOpOf(x) ==
    IF x.t # "obj"
      THEN [kind |-> "str", operation |-> None, keys |-> {}, content |-> None, id |-> NoId]
      ELSE [kind |-> "dict",
            operation |-> IF "operation" \in NamesOf(x) THEN StrOf(ItemAt(x, "operation").s) ELSE None,
            keys |-> NamesOf(x),
            content |-> IF "content" \in NamesOf(x) THEN StrOf(ItemAt(x, "content").s) ELSE None,
            id |-> IF "id" \in NamesOf(x) THEN ItemAt(x, "id").s ELSE NoId]

\* An entry of a parsed tool_calls list: an entry that is not an object has
\* neither key.
ToolCallOf(x) ==
    IF x.t # "obj"
      THEN [keys |-> {}, tool |-> None, input |-> None]
      ELSE [keys |-> NamesOf(x),
            tool |-> IF "tool" \in NamesOf(x) THEN StrOf(ItemAt(x, "tool").s) ELSE None,
            input |-> IF "input" \in NamesOf(x) THEN StrOf(ItemAt(x, "input").s) ELSE None]

\* response_json as Agent.run reads it: the outcome of extract_largest_json
\* as a payload.  A key the agent does not read counts as "note".
PayloadOf(e) ==
    IF e.raised = "ValueError" THEN Payload("nojson", {}, None, <<>>, <<>>, None)
    ELSE IF e.raised # None THEN Payload("raise", {}, None, <<>>, <<>>, None)
    ELSE IF e.value.t = "arr"
      THEN Payload(IF e.value.items = <<>> THEN "emptylist" ELSE "list", {}, None, <<>>, <<>>, None)
    ELSE LET x == e.value
             ks == { IF n \in PayloadKeys THEN n ELSE "note" : n \in NamesOf(x) }
         IN Payload("dict", ks,
                    IF "status_update" \in ks THEN StrOf(ItemAt(x, "status_update").s) ELSE None,
                    IF "memory_updates" \in ks
                      THEN [j \in 1..Len(ItemAt(x, "memory_updates").items) |->
                              BlockOpOf(ItemAt(x, "memory_updates").items[j])]
                      ELSE <<>>,
                    IF "tool_calls" \in ks
                      THEN [j \in 1..Len(ItemAt(x, "tool_calls").items) |->
                              ToolCallOf(ItemAt(x, "tool_calls").items[j])]
                      ELSE <<>>,
                    IF "answer" \in ks THEN StrOf(ItemAt(x, "answer").s) ELSE None)

\* The replies drawn under SpecParse are built from these fragments.
ObjA == <<"{", Quote, "a", Quote, ":", "1", "}">>
ObjAB == <<"{", Quote, "a", Quote, ":", "1", ",", Quote, "b", Quote, ":", "2", "}">>
\* {"tool_calls":[]}
ObjCalls ==
    <<"{", Quote, "t", "o", "o", "l", "_", "c", "a", "l", "l", "s", Quote, ":", "[",
      "]", "}">>
\* {"status_update":"DONE","memory_updates":[],"tool_calls":[]}
ObjDone ==
    <<"{", Quote, "s", "t", "a", "t", "u", "s", "_", "u", "p", "d", "a", "t", "e",
      Quote, ":", Quote, "D", "O", "N", "E", Quote, ",", Quote, "m", "e", "m", "o",
      "r", "y", "_", "u", "p", "d", "a", "t", "e", "s", Quote, ":", "[", "]", ",",
      Quote, "t", "o", "o", "l", "_", "c", "a", "l", "l", "s", Quote, ":", "[", "]",
      "}">>

TraceFragments == { <<"x">>, ObjAB, OpenTag, CloseTag }
ContentFragments ==
    { <<"x">>, ObjA, ObjAB, ObjCalls, ObjDone, <<"{", "}">>, <<"[">>, <<"]">>,
      <<"[", "1", "]">> }

\* blah {"a":1} more {"a":1,"b":2} tail
ExampleText ==
    <<"b", "l", "a", "h", " ">> \o ObjA \o <<" ", "m", "o", "r", "e", " ">> \o ObjAB
    \o <<" ", "t", "a", "i", "l">>

RECURSIVE Concat(_)
Concat(fragments) ==
    IF fragments = <<>> THEN <<>> ELSE Head(fragments) \o Concat(Tail(fragments))

TextsOf(fragments, n) == { Concat(fs) : fs \in SeqsUpTo(fragments, n) }

\* Under SpecParse the model answers every call of one agent with the same
\* reply, drawn at the start.
InitParse ==
    /\ AgentInit
    /\ parse_pc = "off"
    /\ think_content \in { [isNone |-> TRUE, text |-> <<>>] }
                         \cup { [isNone |-> FALSE, text |-> t] : t \in TextsOf(TraceFragments, MaxTraceFragments) }
    /\ content \in TextsOf(ContentFragments, MaxFragments) \cup {ExampleText}
    /\ response_text = <<>>
    /\ extracted = NotExtracted
    /\ FrontendInit

\* The model is called and its reply is awaited.
InvokeModelText ==
    /\ InvokeModelCall(MaxParseCalls)
    /\ parse_pc' = "request"
    /\ response_text' = <<>>
    /\ extracted' = NotExtracted
    /\ UNCHANGED <<think_content, content, webVars>>

\* OpenRouterModel.__call__ on a 200 reply: think_content + "\n" + content
\* is returned; a null reasoning makes the concatenation raise TypeError.
ModelReturns ==
    /\ pc = "model"
    /\ parse_pc = "request"
    /\ IF think_content.isNone
         THEN /\ parse_pc' = "raised"
              /\ extracted' = [raised |-> "TypeError", value |-> NullValue]
              /\ UNCHANGED response_text
         ELSE /\ parse_pc' = "response"
              /\ response_text' = think_content.text \o <<"\n">> \o content
              /\ UNCHANGED extracted
    /\ UNCHANGED <<think_content, content, agentVars, webVars>>

\* response = re.sub(...) in Agent.run.
StripMarkup ==
    /\ parse_pc = "response"
    /\ response_text' = StripThink(response_text)
    /\ parse_pc' = "cleaned"
    /\ UNCHANGED <<think_content, content, extracted, agentVars, webVars>>

\* response_json = extract_largest_json(response) in Agent.run.
ExtractJson ==
    /\ parse_pc = "cleaned"
    /\ extracted' = extract_largest_json(response_text)
    /\ parse_pc' = IF extracted'.raised = None THEN "parsed" ELSE "raised"
    /\ UNCHANGED <<think_content, content, response_text, agentVars, webVars>>

\* The rest of the try block, on the value extracted from the reply.  (No
\* reply drawn here holds a tool call, so the gather has nothing to await.)
ReplyHandled ==
    /\ parse_pc \in {"parsed", "raised"}
    /\ ModelResponds({PayloadOf(extracted)})

NextParse ==
    \/ run(MaxParseCalls, {TRUE}, {NoLimit})
    \/ InvokeModelText
    \/ ModelReturns
    \/ StripMarkup
    \/ ExtractJson
    \/ ReplyHandled
    \/ GatherReturns
    \/ Backoff

SpecParse == InitParse /\ [][NextParse]_vars

\* ------------------------------------------------------- webhook handler
StatusOfEventOrUnknown(type, status) ==
    IF type \in {"start", "iteration"} THEN "running"
    ELSE IF type = "complete" THEN "completed"
    ELSE IF type = "timeout" THEN "timeout"
    ELSE IF type = "error" THEN "error"
    ELSE "unknown"

\* The switch of the webhook POST handler on the type of the event.
StatusOfEvent(type, status) ==
    IF type \in {"start", "iteration"} THEN "running"
    ELSE IF type = "complete" THEN "completed"
    ELSE IF type = "timeout" THEN "timeout"
    ELSE IF type = "error" THEN "error"
    ELSE status

\* POST /api/webhook?id=...: from the parsed body to the call of
\* redisUtils.setSearchData, which serializes the record before it awaits.
\* The record of the instance's memoryStorage is read (a missing one is made
\* up as 'pending' with a new iterations array), copied shallowly and
\* changed by the switch: an iteration with data is pushed onto the array of
\* the existing record, iterations of a complete event replace it.  hid
\* stands for what the pushed entry holds.
PostArrives(insts, evs) ==
    /\ events < MaxEvents
    /\ events' = events + 1
    /\ \E inst \in insts, searchId \in SearchIds \cup {NoSearchId}, ev \in evs :
         IF searchId = NoSearchId
           THEN /\ postResponse' = [hid |-> events + 1, code |-> 400, status |-> "none",
                                    log |-> <<>>]
                /\ UNCHANGED <<memoryStore, arrays, redisStore, blobStore, handlers, getter,
                               gets, returned, pushedSince, otherSince, redisWrites>>
           ELSE LET hid == events + 1
                    found == memoryStore[inst][searchId]
                    arrays0 == IF found.present THEN arrays ELSE Append(arrays, <<>>)
                    existingData == IF found.present THEN found
                                    ELSE [present |-> TRUE, status |-> "pending",
                                          ref |-> Len(arrays0)]
                    pushes == ev.type = "iteration" /\ ev.data # "none"
                    replaces == ev.type = "complete" /\ ev.data = "iterations"
                    arrays1 == IF pushes
                                 THEN [arrays0 EXCEPT ![existingData.ref] = Append(@, hid)]
                               ELSE IF replaces THEN Append(arrays0, <<>>)
                               ELSE arrays0
                    updatedData == [present |-> TRUE,
                                    status |-> StatusOfEvent(ev.type, existingData.status),
                                    ref |-> IF replaces THEN Len(arrays1) ELSE existingData.ref]
                IN /\ arrays' = arrays1
                   /\ memoryStore' = [memoryStore EXCEPT ![inst][searchId] = updatedData]
                   /\ handlers' = handlers \cup
                        { [hid |-> hid, inst |-> inst, id |-> searchId, type |-> ev.type,
                           status |-> updatedData.status, ref |-> updatedData.ref,
                           stage |-> "redis",
                           payload |-> Record(updatedData.status, arrays1[updatedData.ref]),
                           log |-> <<"memory", "redis">>] }
                   /\ pushedSince' = IF pushes THEN Append(pushedSince, hid) ELSE pushedSince
                   /\ otherSince' = (otherSince \/ ev.type # "iteration")
                   /\ getter' = IF getter.pc \in {"redis", "blob"}
                                  THEN [getter EXCEPT !.quiet = FALSE] ELSE getter
                   /\ UNCHANGED <<redisStore, blobStore, postResponse, gets, returned,
                                  redisWrites>>
    /\ UNCHANGED <<agentVars, parseVars, decisionVars>>

RespondStoreFailure(h) ==
    [hid |-> h.hid, code |-> IF h.log[Len(h.log)] = "lost" THEN 500 ELSE 200,
     status |-> h.status, log |-> h.log]

\* The success response of the webhook POST handler.
Respond(h) == [hid |-> h.hid, code |-> 200, status |-> h.status, log |-> h.log]

\* redis.set returns: the handler answers.
RedisWriteReturns ==
    /\ \E h \in handlers :
          /\ h.stage = "redis"
          /\ redisStore' = [redisStore EXCEPT ![h.id] = h.payload]
          /\ handlers' = handlers \ {h}
          /\ postResponse' = Respond(h)
          /\ redisWrites' = Append(redisWrites, h.hid)
    /\ UNCHANGED <<memoryStore, arrays, blobStore, events, getter, gets, returned,
                   pushedSince, otherSince>>
    /\ UNCHANGED <<agentVars, parseVars, decisionVars>>

\* redis.set throws: the catch clause serializes the record as it is now and
\* calls put of Vercel Blob.
RedisWriteThrows ==
    /\ \E h \in handlers :
          /\ h.stage = "redis"
          /\ handlers' = (handlers \ {h}) \cup
                { [h EXCEPT !.stage = "blob",
                            !.payload = Record(h.status, arrays[h.ref]),
                            !.log = Append(h.log, "blob")] }
    /\ UNCHANGED <<memoryStore, arrays, redisStore, blobStore, events, postResponse, getter,
                   gets, returned, pushedSince, otherSince, redisWrites>>
    /\ UNCHANGED <<agentVars, parseVars, decisionVars>>

\* put returns or throws: the handler answers either way.
BlobWriteEnds ==
    /\ \E h \in handlers, ok \in BOOLEAN :
          /\ h.stage = "blob"
          /\ blobStore' = IF ok THEN [blobStore EXCEPT ![h.id] = h.payload] ELSE blobStore
          /\ handlers' = handlers \ {h}
          /\ postResponse' = Respond([h EXCEPT !.log = Append(h.log, IF ok THEN "stored" ELSE "lost")])
    /\ UNCHANGED <<memoryStore, arrays, redisStore, events, getter, gets, returned,
                   pushedSince, otherSince, redisWrites>>
    /\ UNCHANGED <<agentVars, parseVars, decisionVars>>

\* --------------------------------------------------- search-status handler
\* GET /api/search-status/[id] is received by an instance.
StatusRequested ==
    /\ getter.pc \in {"idle", "done"}
    /\ gets < MaxGets
    /\ gets' = gets + 1
    /\ \E inst \in Instances, id \in SearchIds :
          getter' = [pc |-> "redis", inst |-> inst, id |-> id, code |-> 0, data |-> NoRecord,
                     source |-> "none", failed |-> {}, quiet |-> handlers = {}]
    /\ UNCHANGED <<memoryStore, arrays, redisStore, blobStore, handlers, events,
                   postResponse, returned, pushedSince, otherSince, redisWrites>>
    /\ UNCHANGED <<agentVars, parseVars, decisionVars>>

\* The response of the GET handler with the record it found.
Found(g, record, source) ==
    [g EXCEPT !.pc = "done", !.code = 200, !.data = record, !.source = source]

RedisAnswersOrFails ==
    /\ getter.pc = "redis"
    /\ \E up \in BOOLEAN :
          IF up /\ redisStore[getter.id].present
            THEN /\ getter' = Found(getter, redisStore[getter.id], "redis")
                 /\ returned' = redisStore[getter.id].iterations
                 /\ pushedSince' = <<>>
                 /\ otherSince' = FALSE
            ELSE /\ getter' = IF up THEN [getter EXCEPT !.pc = "blob"]
                               ELSE [getter EXCEPT !.pc = "done", !.code = 500,
                                                   !.failed = {"redis"}]
                 /\ UNCHANGED <<returned, pushedSince, otherSince>>
    /\ UNCHANGED <<memoryStore, arrays, redisStore, blobStore, handlers, events,
                   postResponse, gets, redisWrites>>
    /\ UNCHANGED <<agentVars, parseVars, decisionVars>>

\* redisUtils.getSearchData returns or throws.
RedisAnswers ==
    /\ getter.pc = "redis"
    /\ \E up \in BOOLEAN :
          IF up /\ redisStore[getter.id].present
            THEN /\ getter' = Found(getter, redisStore[getter.id], "redis")
                 /\ returned' = redisStore[getter.id].iterations
                 /\ pushedSince' = <<>>
                 /\ otherSince' = FALSE
            ELSE /\ getter' = [getter EXCEPT !.pc = "blob",
                                  !.failed = IF up THEN {} ELSE {"redis"}]
                 /\ UNCHANGED <<returned, pushedSince, otherSince>>
    /\ UNCHANGED <<memoryStore, arrays, redisStore, blobStore, handlers, events,
                   postResponse, gets, redisWrites>>
    /\ UNCHANGED <<agentVars, parseVars, decisionVars>>

\* list and fetch of Vercel Blob return or throw; without a record from
\* there memoryStorage is read and the handler answers.
BlobAnswers ==
    /\ getter.pc = "blob"
    /\ \E up \in BOOLEAN :
          LET g == [getter EXCEPT !.failed = IF up THEN @ ELSE @ \cup {"blob"}]
              m == memoryStore[getter.inst][getter.id] IN
          IF up /\ blobStore[getter.id].present
            THEN /\ getter' = Found(g, blobStore[getter.id], "blob")
                 /\ returned' = blobStore[getter.id].iterations
                 /\ pushedSince' = <<>>
                 /\ otherSince' = FALSE
          ELSE IF m.present
            THEN /\ getter' = Found(g, Record(m.status, arrays[m.ref]), "memory")
                 /\ returned' = arrays[m.ref]
                 /\ pushedSince' = <<>>
                 /\ otherSince' = FALSE
          ELSE /\ getter' = [g EXCEPT !.pc = "done", !.code = 404]
               /\ UNCHANGED <<returned, pushedSince, otherSince>>
    /\ UNCHANGED <<memoryStore, arrays, redisStore, blobStore, handlers, events,
                   postResponse, gets, redisWrites>>
    /\ UNCHANGED <<agentVars, parseVars, decisionVars>>

\* The webhook handlers of one instance, under every event.
NextWebhook ==
    \/ PostArrives({"i1"}, WebhookEvents)
    \/ RedisWriteReturns
    \/ RedisWriteThrows
    \/ BlobWriteEnds

SpecWebhook == Init /\ [][NextWebhook]_vars

\* The webhook and the search-status handlers of every instance, under the
\* events of a search that iterates and completes.
StatusEvents ==
    { ev \in WebhookEvents : ev.type \in {"iteration", "complete"} /\ ev.data = "plain" }

NextStatus ==
    \/ PostArrives(Instances, StatusEvents)
    \/ RedisWriteReturns
    \/ RedisWriteThrows
    \/ BlobWriteEnds
    \/ StatusRequested
    \/ RedisAnswers
    \/ BlobAnswers

SpecStatus == Init /\ [][NextStatus]_vars

\* ------------------------------------------------------ user-decision route
storeVars == <<memoryStore, arrays, redisStore, blobStore, handlers, events, postResponse,
               getter, gets, returned, pushedSince, otherSince, redisWrites>>

getKeeps(id) ==
    /\ decisionGets < MaxDecisionGets
    /\ decisionGets' = decisionGets + 1
    /\ LET decision == userDecisions[id] IN
       IF decision # NoDecision /\ decision # ""
         THEN /\ decisionResponse' = [method |-> "GET", id |-> id, code |-> 200,
                                      action |-> decision]
              /\ UNCHANGED <<userDecisions, storedBy>>
         ELSE /\ decisionResponse' = [method |-> "GET", id |-> id, code |-> 200,
                                      action |-> "null"]
              /\ UNCHANGED <<userDecisions, storedBy>>
    /\ awaited' = [awaited EXCEPT ![id] = NotAwaited]
    /\ UNCHANGED <<timeouts, posts>>
    /\ UNCHANGED <<agentVars, parseVars, storeVars>>

\* GET /api/user-decision/[id]: a decision found in the Map is deleted and
\* returned, otherwise the action of the response is null.
get(id) ==
    /\ decisionGets < MaxDecisionGets
    /\ decisionGets' = decisionGets + 1
    /\ LET decision == userDecisions[id] IN
       IF decision # NoDecision /\ decision # ""
         THEN /\ userDecisions' = [userDecisions EXCEPT ![id] = NoDecision]
              /\ storedBy' = [storedBy EXCEPT ![id] = 0]
              /\ decisionResponse' = [method |-> "GET", id |-> id, code |-> 200,
                                      action |-> decision]
         ELSE /\ decisionResponse' = [method |-> "GET", id |-> id, code |-> 200,
                                      action |-> "null"]
              /\ UNCHANGED <<userDecisions, storedBy>>
    /\ awaited' = [awaited EXCEPT ![id] = NotAwaited]
    /\ UNCHANGED <<timeouts, posts>>
    /\ UNCHANGED <<agentVars, parseVars, storeVars>>

\* POST /api/user-decision/[id]: an action that is missing, empty or not
\* 'continue' or 'finalize' is answered 400; a valid one is put in the Map
\* and a callback is set to run 5 minutes later.
post(id, action) ==
    /\ posts < MaxPosts
    /\ posts' = posts + 1
    /\ IF action = NoDecision \/ action = "" \/ action \notin ValidActions
         THEN /\ decisionResponse' = [method |-> "POST", id |-> id, code |-> 400,
                                      action |-> action]
              /\ UNCHANGED <<userDecisions, timeouts, storedBy, awaited>>
         ELSE /\ userDecisions' = [userDecisions EXCEPT ![id] = action]
              /\ timeouts' = Append(timeouts, [id |-> id, post |-> posts + 1])
              /\ storedBy' = [storedBy EXCEPT ![id] = posts + 1]
              /\ awaited' = [awaited EXCEPT ![id] = [post |-> posts + 1, action |-> action,
                                                     expired |-> FALSE]]
              /\ decisionResponse' = [method |-> "POST", id |-> id, code |-> 200,
                                      action |-> action]
    /\ UNCHANGED decisionGets
    /\ UNCHANGED <<agentVars, parseVars, storeVars>>

\* The callback of the oldest setTimeout runs: the callbacks have one delay,
\* so they run in the order they were set. It deletes whatever the Map holds
\* for its id.
TimeoutRuns ==
    /\ timeouts # <<>>
    /\ LET id == Head(timeouts).id IN
         /\ userDecisions' = [userDecisions EXCEPT ![id] = NoDecision]
         /\ storedBy' = [storedBy EXCEPT ![id] = 0]
         /\ awaited' = [awaited EXCEPT ![id].expired = (@ \/ awaited[id].post # 0)]
    /\ timeouts' = Tail(timeouts)
    /\ UNCHANGED <<decisionResponse, posts, decisionGets>>
    /\ UNCHANGED <<agentVars, parseVars, storeVars>>

NextDecision ==
    \/ \E id \in SearchIds : get(id)
    \/ \E id \in SearchIds, action \in PostedActions : post(id, action)
    \/ TimeoutRuns

SpecDecision == Init /\ [][NextDecision]_vars

\* ------------------------------------------------------------------ claims
Running == pc \in {"sleep20", "model", "gather", "sleep10"}

\* The payload passes every check of the try block (it has tool_calls and a
\* memory_updates list of objects, and every call names a tool and an input).
WellFormed(p) ==
    /\ p.kind = "dict"
    /\ {"tool_calls", "memory_updates"} \subseteq p.keys
    /\ \A i \in 1..Len(p.memory_updates) : p.memory_updates[i].kind = "dict"
    /\ \A i \in 1..Len(p.tool_calls) : {"tool", "input"} \subseteq p.tool_calls[i].keys

IsFailureText(output) == output # <<>> /\ Head(output) = FailPrefix

\* C1: a fresh agent run with loop=true and max_rounds=2 against a model whose
\* every response is valid and leaves the status IN_PROGRESS has invoked the
\* model exactly twice and counts 2 rounds when run returns.
C1_StopsAfterTwoRounds ==
    ( /\ pc = "returned" /\ runs = 1 /\ loop /\ max_rounds = 2
      /\ workspace.status = IN_PROGRESS
      /\ modelCalls = round )
    => (round = 2 /\ modelCalls = 2)

\* C2: an attempt whose parsed object has no tool_calls field (its other
\* fields being well-formed) fails and leaves
\* the workspace and the tool records as they were, so that the retry renders
\* the prompt this attempt rendered.
C2_MissingToolCallsAppliesNothing ==
    [][ ( /\ pc = "model"
          /\ response'.kind = "dict"
          /\ "memory_updates" \in response'.keys
          /\ \A i \in 1..Len(response'.memory_updates) : response'.memory_updates[i].kind = "dict"
          /\ "tool_calls" \notin response'.keys )
        => ( /\ pc' = "sleep10"
             /\ workspace' = workspace
             /\ tool_records' = tool_records
             /\ [workspace |-> to_string(workspace'), tool_records |-> tool_records'] = prompt )
      ]_vars

\* C3: when the first attempt of a round fails in the model call and the
\* second attempt returns a payload that is applied, the first attempt has
\* changed neither the workspace nor the tool records, and the workspace is
\* the one of the round's start updated by the second response alone.
C3_OnlySecondAttemptApplied ==
    [][ (pc = "model" /\ pc' = "gather" /\ attempts = <<"Exception">>)
        => ( /\ workspace = round_start.workspace
             /\ tool_records = round_start.tool_records
             /\ tool_records' = round_start.tool_records
             /\ applied = round_start.applied
             /\ applied' = round_start.applied + 1
             /\ workspace'.status = Get(response', "status_update", IN_PROGRESS)
             /\ workspace'.answer = IF Get(response', "answer", None) # None
                                     THEN response'.answer
                                     ELSE round_start.workspace.answer
             /\ \E r \in ApplyBlockOps(round_start.workspace.blocks, response'.memory_updates) :
                    workspace'.blocks = r.blocks )
      ]_vars

C3_Witness ==
    /\ pc = "gather" /\ attempts = <<"Exception">>
    /\ applied = 1
    /\ workspace.blocks # <<>> /\ workspace.status = "DONE" /\ workspace.answer = "a1"

\* C4: a response with tool_calls (and well-formed entries) in which
\* memory_updates, status_update or answer is omitted is a successful round:
\* the tools are dispatched, an omitted memory_updates changes no block, an
\* omitted status_update gives IN_PROGRESS, an omitted answer keeps the answer.
C4_OptionalFieldsDefault ==
    [][ ( /\ pc = "model"
          /\ response'.kind = "dict"
          /\ "tool_calls" \in response'.keys
          /\ \A i \in 1..Len(response'.memory_updates) : response'.memory_updates[i].kind = "dict"
          /\ \A i \in 1..Len(response'.tool_calls) :
                {"tool", "input"} \subseteq response'.tool_calls[i].keys )
        => ( /\ pc' = "gather"
             /\ "memory_updates" \notin response'.keys => workspace'.blocks = workspace.blocks
             /\ "status_update" \notin response'.keys => workspace'.status = IN_PROGRESS
             /\ "answer" \notin response'.keys => workspace'.answer = workspace.answer )
      ]_vars

\* C5: whenever an attempt starts, the number of responses applied to the
\* workspace equals the round counter.
C5_AppliedOncePerRound == pc = "model" => applied = round

\* C6: when the gather of a round returns, there is one record per call, in
\* the order of the calls; the record of a call whose tool raised begins with
\* the failure prefix and every other record carries the tool's result; the
\* round is counted, and nothing from the dispatch on changes the workspace
\* or aborts the round.
C6_ToolFailureContained ==
    [][ pc = "gather"
        => ( /\ pc' \in {"gather", "sleep20", "returned"}
             /\ workspace' = workspace
             /\ pc' # "gather"
                  => ( /\ round' = round + 1
                       /\ Len(tool_records'.items) = Len(response.tool_calls)
                       /\ \A i \in 1..Len(response.tool_calls) :
                            /\ tool_records'.items[i].tool = response.tool_calls[i].tool
                            /\ tool_records'.items[i].input = response.tool_calls[i].input
                            /\ IF tasks[i].raised
                                 THEN IsFailureText(tool_records'.items[i].output)
                                 ELSE tool_records'.items[i].output = tasks[i].value ) )
      ]_vars

C6_Witness ==
    /\ pc \in {"sleep20", "returned"}
    /\ round = 1
    /\ Len(tool_records.items) = 2
    /\ \E i, j \in 1..2 :
          /\ tool_records.items[i].tool \in {"search", "scrape"}
          /\ IsFailureText(tool_records.items[i].output)
          /\ tool_records.items[j].output = <<"result of ", tool_records.items[j].tool,
                                               tool_records.items[j].input>>

\* C7: a call that names a tool other than search or scrape never invokes a
\* tool and its output is the failure text, the calls that name search or
\* scrape are invoked, and a well-formed payload with such a call is
\* dispatched and counted as a round.
C7_IllegalToolIsPerCallFailure ==
    /\ [](pc = "gather"
            => \A i \in 1..Len(tasks) :
                  IF response.tool_calls[i].tool \in {"search", "scrape"}
                    THEN tasks[i].invoked
                    ELSE /\ ~tasks[i].invoked
                         /\ tasks[i].state = "done"
                         /\ tasks[i].output
                              = <<FailPrefix, "Illegal tool: ", response.tool_calls[i].tool>>)
    /\ [][ (pc = "model" /\ WellFormed(response')) => pc' = "gather" ]_vars
    /\ [][ (pc = "gather" /\ pc' # "gather")
            => /\ round' = round + 1
               /\ \A i \in 1..Len(tasks) :
                     response.tool_calls[i].tool \notin {"search", "scrape"}
                       => IsFailureText(tool_records'.items[i].output) ]_vars

C7_Witness ==
    /\ pc \in {"sleep20", "returned"}
    /\ round = 1
    /\ Len(tool_records.items) = 2
    /\ \E i, j \in 1..2 :
          /\ tool_records.items[i].tool = "browse"
          /\ IsFailureText(tool_records.items[i].output)
          /\ tool_records.items[j].tool = "scrape"
          /\ tool_records.items[j].output = <<"result of ", "scrape", "u">>

\* C8: a run with loop=false returns after exactly one successful round,
\* whatever the status and whatever max_rounds.
C8_NonLoopingStopsAfterOne ==
    (runs >= 1 /\ ~loop)
    => /\ Running => round = round0
       /\ pc = "returned" => round = round0 + 1

C8_Witness ==
    /\ pc = "returned" /\ ~loop /\ max_rounds = 5
    /\ workspace.status = IN_PROGRESS
    /\ round = round0 + 1

\* C9: on a fresh agent run with loop=true and max_rounds=5, a first round
\* that leaves a status other than IN_PROGRESS makes run return, and the model
\* is not invoked again once run has returned.
C9_DoneStopsAfterRoundOne ==
    /\ [][ ( /\ runs = 1 /\ loop /\ max_rounds = 5
             /\ round = 0 /\ round' = 1
             /\ workspace'.status # IN_PROGRESS )
           => pc' = "returned" ]_vars
    /\ [][ (pc = "returned" /\ runs' = runs)
           => (pc' = "returned" /\ modelCalls' = modelCalls) ]_vars

C9_Witness ==
    /\ pc = "returned" /\ runs = 1 /\ loop /\ max_rounds = 5
    /\ round = 1 /\ modelCalls = 1
    /\ workspace.status = "DONE"

\* C10: a failed attempt neither counts a round nor leaves the loop: run
\* returns only from a counted round through one of the three stop
\* conditions, and a run in which no round has succeeded has not returned.
C10_FailureNeverEndsLoop ==
    /\ [][ (pc = "model" /\ pc' # "gather")
           => (pc' = "sleep10" /\ round' = round) ]_vars
    /\ [][ pc = "sleep10" => (pc' = "sleep20" /\ round' = round) ]_vars
    /\ [][ (pc # "returned" /\ pc' = "returned")
           => ( /\ pc = "gather"
                /\ round' = round + 1
                /\ \/ (max_rounds \notin {NoLimit, 0} /\ round' > max_rounds)
                   \/ ~loop
                   \/ workspace.status # IN_PROGRESS ) ]_vars
    /\ [](runs >= 1 /\ round = round0 => pc # "returned")

C10_Witness ==
    /\ pc = "sleep10" /\ runs = 1
    /\ Len(attempts) = 2
    /\ round = round0

\* C11: the value selected as the response object of a reply is the one the
\* final content alone yields: no JSON value of the reasoning trace is
\* selected.
C11_TraceNeverSelected ==
    parse_pc = "parsed" => extracted = extract_largest_json(StripThink(content))

\* The outputs run_tool can return for a call.
OwnOutputs(call) ==
    IF call.tool \in {"search", "scrape"}
      THEN { <<"result of ", call.tool, call.input>>,
             <<FailPrefix, "Failed to fetch ", call.input>> }
      ELSE { <<FailPrefix, "Illegal tool: ", call.tool>> }

\* C12: whatever the order in which the dispatched calls complete, the round
\* goes on only when every call has finished or failed, there are as many
\* records as calls, and the i-th record is the i-th call with the output of
\* that very call.
C12_RecordsPairCallsWithOwnOutputs ==
    [][ (pc = "gather" /\ pc' # "gather")
        => ( /\ \A i \in 1..Len(tasks) : tasks[i].state = "done"
             /\ Len(tasks) = Len(response.tool_calls)
             /\ ~tool_records'.isNone
             /\ Len(tool_records'.items) = Len(response.tool_calls)
             /\ \A i \in 1..Len(response.tool_calls) :
                  /\ tool_records'.items[i].tool = response.tool_calls[i].tool
                  /\ tool_records'.items[i].input = response.tool_calls[i].input
                  /\ tool_records'.items[i].output = tasks[i].output
                  /\ tool_records'.items[i].output \in OwnOutputs(response.tool_calls[i]) )
      ]_vars

C12_Witness ==
    /\ pc \in {"sleep20", "returned"}
    /\ overtaken
    /\ Len(tool_records.items) = 2
    /\ tool_records.items[1] = [tool |-> "search", input |-> "q",
                                output |-> <<"result of ", "search", "q">>]
    /\ tool_records.items[2] = [tool |-> "scrape", input |-> "u",
                                output |-> <<FailPrefix, "Failed to fetch ", "u">>]

\* C13: the workspace changes only in the update step of an attempt: it is
\* the same across the pacing delay, the model call up to its reply, every
\* tool completion, the storing of the tool records and the backoff; and a
\* block that appears holds the content of an add operation of the response
\* being applied, never a tool output.
C13_WorkspaceChangesOnlyInUpdate ==
    [][ /\ workspace' # workspace
            => (pc = "model" /\ response'.kind = "dict" /\ applied' = applied + 1)
        /\ pc # "model" => workspace' = workspace
        /\ \A i \in 1..Len(workspace'.blocks) :
              (\A j \in 1..Len(workspace.blocks) : workspace.blocks[j] # workspace'.blocks[i])
              => \E k \in 1..Len(response'.memory_updates) :
                    /\ response'.memory_updates[k].operation = "add"
                    /\ workspace'.blocks[i].content = response'.memory_updates[k].content
      ]_vars

C13_Witness ==
    /\ pc \in {"sleep20", "returned"}
    /\ round = 2
    /\ workspace.blocks # <<>> /\ workspace.answer = "a1"
    /\ Len(tool_records.items) = 1
    /\ tool_records.items[1].output = <<"result of ", "search", "q">>

\* C14: rounds never overlap: the model is invoked one call at a time, only
\* from the pacing delay, never while a tool call is pending, and the gather
\* of a round is left only when every call it dispatched has completed.
C14_RoundsNeverOverlap ==
    /\ [][ modelCalls' # modelCalls
           => ( /\ pc = "sleep20" /\ pc' = "model"
                /\ modelCalls' = modelCalls + 1
                /\ tasks = <<>> ) ]_vars
    /\ []((\E i \in 1..Len(tasks) : tasks[i].state = "pending") => pc = "gather")
    /\ [][ (pc = "gather" /\ pc' # "gather")
           => ( /\ \A i \in 1..Len(tasks) : tasks[i].state # "pending"
                /\ pc' \in {"sleep20", "returned"} ) ]_vars

C14_Witness ==
    /\ pc = "model"
    /\ round = 1 /\ modelCalls = 2
    /\ overtaken
    /\ Len(tool_records.items) = 2

\* C15: a successful round leaves exactly its own records, one per call of
\* its tool_calls list (none for an empty list) and none of an earlier round;
\* a failed attempt, the backoff and the next model call leave the records
\* as they were.
C15_RecordsReplacedEachRound ==
    /\ [][ (pc = "gather" /\ pc' # "gather")
           => ( /\ ~tool_records'.isNone
                /\ tool_records'.items
                     = [i \in 1..Len(response.tool_calls) |->
                          [tool |-> response.tool_calls[i].tool,
                           input |-> response.tool_calls[i].input,
                           output |-> tasks[i].output]]
                /\ response.tool_calls = <<>> => tool_records'.items = <<>> ) ]_vars
    /\ [][ (pc # "gather" \/ pc' = "gather") => tool_records' = tool_records ]_vars

C15_Witness ==
    /\ pc \in {"sleep20", "returned"}
    /\ round = 2
    /\ Len(round_start.tool_records.items) = 2
    /\ ~tool_records.isNone /\ tool_records.items = <<>>

\* C16: when the calls of a round are dispatched, the update of the response
\* has been applied to the workspace, and the tool completions, the storing
\* of the records and the stop checks of that round leave status, blocks and
\* answer as committed.
C16_UpdateCommittedBeforeDispatch ==
    /\ [][ (pc = "model" /\ pc' = "gather")
           => ( /\ applied' = applied + 1
                /\ workspace'.status = Get(response', "status_update", IN_PROGRESS)
                /\ workspace'.answer = IF Get(response', "answer", None) # None
                                        THEN response'.answer ELSE workspace.answer
                /\ \E r \in ApplyBlockOps(workspace.blocks, response'.memory_updates) :
                       r.raised = None /\ workspace'.blocks = r.blocks
                /\ \A i \in 1..Len(tasks') : tasks'[i].state = "pending" => tasks'[i].invoked ) ]_vars
    /\ [][ pc = "gather" => (workspace' = workspace /\ applied' = applied) ]_vars
    /\ [](pc \in {"idle", "sleep20", "sleep10", "returned"}
            => \A i \in 1..Len(tasks) : tasks[i].state # "pending")

C16_Witness ==
    /\ pc \in {"sleep20", "returned"}
    /\ round = 1 /\ applied = 1
    /\ workspace.status = "DONE" /\ workspace.blocks # <<>> /\ workspace.answer = "a1"
    /\ Len(tool_records.items) = 1
    /\ IsFailureText(tool_records.items[1].output)

Lowercase ==
    {"a", "b", "c", "d", "e", "f", "g", "h", "i", "j", "k", "l", "m",
     "n", "o", "p", "q", "r", "s", "t", "u", "v", "w", "x", "y", "z"}

DecimalDigits == {"0", "1", "2", "3", "4", "5", "6", "7", "8", "9"}

\* The id matches [a-z]{3}-[0-9]{3}.
MatchesIdPattern(id) ==
    /\ Len(id) = 7
    /\ \A k \in 1..3 : id[k] \in Lowercase
    /\ id[4] = "-"
    /\ \A k \in 5..7 : id[k] \in DecimalDigits

\* C17: the ids of the blocks of the workspace are pairwise distinct and of
\* the form [a-z]{3}-[0-9]{3} at all times, and an applied list of add
\* operations keeps every block there was and adds one block per operation.
C17_BlockIdsUnique ==
    /\ [](\A i, j \in 1..Len(workspace.blocks) :
             /\ i # j => workspace.blocks[i].id # workspace.blocks[j].id
             /\ MatchesIdPattern(workspace.blocks[i].id))
    /\ [][ ( /\ pc = "model" /\ applied' = applied + 1
             /\ "memory_updates" \in response'.keys
             /\ \A k \in 1..Len(response'.memory_updates) :
                   /\ response'.memory_updates[k].kind = "dict"
                   /\ response'.memory_updates[k].operation = "add" )
           => ( /\ Len(workspace'.blocks) = Len(workspace.blocks) + Len(response'.memory_updates)
                /\ SubSeq(workspace'.blocks, 1, Len(workspace.blocks)) = workspace.blocks ) ]_vars

C17_Witness ==
    /\ round = 2 /\ applied = 2
    /\ Len(workspace.blocks) = 2
    /\ workspace.blocks[1].id # workspace.blocks[2].id

DeleteOp(id) ==
    [kind |-> "dict", operation |-> "delete", keys |-> {"operation", "id"},
     content |-> None, id |-> id]

\* C18: applying a list of delete operations whose ids are not in the
\* workspace raises nothing and leaves the blocks, and with an unchanged
\* status the text of the workspace, as they were; and on every workspace the
\* agent reaches, deleting an id twice gives what deleting it once gives.
C18_DeleteAbsentIsNoOp ==
    /\ [][ ( /\ pc = "model" /\ applied' = applied + 1
             /\ "memory_updates" \in response'.keys
             /\ response'.memory_updates # <<>>
             /\ \A k \in 1..Len(response'.memory_updates) :
                   /\ response'.memory_updates[k].kind = "dict"
                   /\ response'.memory_updates[k].operation = "delete"
                   /\ response'.memory_updates[k].id \notin BlockIdsOf(workspace.blocks) )
           => ( /\ workspace'.blocks = workspace.blocks
                /\ workspace'.status = workspace.status
                     => to_string(workspace') = to_string(workspace)
                /\ "tool_calls" \in response'.keys => pc' = "gather" ) ]_vars
    /\ [](\A id \in BlockIds \cup {NoId} :
             /\ DeleteBlock(DeleteBlock(workspace.blocks, id), id)
                  = DeleteBlock(workspace.blocks, id)
             /\ id \notin BlockIdsOf(workspace.blocks)
                  => ApplyBlockOps(workspace.blocks, <<DeleteOp(id)>>)
                       = { [blocks |-> workspace.blocks, raised |-> None] })

C18_Witness ==
    /\ pc = "gather" /\ attempts = <<>>
    /\ Len(response.memory_updates) = 1
    /\ response.memory_updates[1].operation = "delete"
    /\ workspace.blocks # <<>>
    /\ response.memory_updates[1].id \notin BlockIdsOf(round_start.workspace.blocks)
    /\ workspace.blocks = round_start.workspace.blocks

\* C19: the stored answer is None on a new agent and changes only when a
\* response that carries a non-null answer is applied, to that answer; a
\* round whose response has no answer, or a null one, leaves it as it was.
C19_AnswerPersists ==
    /\ [](applied = 0 => workspace.answer = None)
    /\ [][ workspace'.answer # workspace.answer
           => ( /\ pc = "model" /\ applied' = applied + 1
                /\ Get(response', "answer", None) # None
                /\ workspace'.answer = response'.answer ) ]_vars
    /\ [][ (pc = "model" /\ pc' = "gather")
           => workspace'.answer = IF Get(response', "answer", None) # None
                                    THEN response'.answer ELSE workspace.answer ]_vars

C19_Witness ==
    /\ pc = "gather" /\ round = 1 /\ applied = 2
    /\ round_start.workspace.answer = "a1"
    /\ "answer" \in response.keys /\ response.answer = None
    /\ workspace.answer = "a1"

\* C20: when a round succeeds the status of the workspace is the
\* status_update of its response, IN_PROGRESS when the response has none,
\* whatever the status was, also when it was DONE.
C20_StatusFollowsResponse ==
    /\ [][ (pc = "model" /\ pc' = "gather")
           => workspace'.status = Get(response', "status_update", IN_PROGRESS) ]_vars
    /\ [][ round' # round
           => ( /\ round' = round + 1
                /\ workspace'.status = Get(response, "status_update", IN_PROGRESS) ) ]_vars

C20_Witness ==
    /\ pc = "gather" /\ round = 1
    /\ round_start.workspace.status = "DONE"
    /\ "status_update" \notin response.keys
    /\ workspace.status = IN_PROGRESS

\* C21: is_done holds exactly when the status is not IN_PROGRESS: a looping
\* run returns after a round that leaves any other status, DONE or not, and
\* with IN_PROGRESS and no round limit reached it goes on.
C21_AnyOtherStatusEndsLoop ==
    /\ [](is_done(workspace) <=> workspace.status # IN_PROGRESS)
    /\ [][ (pc = "gather" /\ pc' # "gather" /\ loop)
           => ( /\ workspace.status # IN_PROGRESS => pc' = "returned"
                /\ (workspace.status = IN_PROGRESS /\ max_rounds \in {NoLimit, 0})
                     => pc' = "sleep20" ) ]_vars

C21_Witness ==
    /\ pc = "returned" /\ runs = 1 /\ loop /\ max_rounds = NoLimit
    /\ round = 1
    /\ workspace.status = "FINISHED"

\* The value {"a": 1, "b": 2}.
ValueAB == ObjValue(<< <<"a">>, <<"b">> >>, <<NumValue(<<"1">>), NumValue(<<"2">>)>>)

\* C22: the value the parser returns is one of the values it collected from
\* the text, and none of them re-serializes longer; for the text
\* 'blah {"a":1} more {"a":1,"b":2} tail' it is {"a":1,"b":2}, not the first
\* value found.
C22_LargestNotFirst ==
    (pc = "model" /\ parse_pc = "parsed")
    => LET json_values == extract_json_values(response_text) IN
       /\ \E i \in 1..Len(json_values) : json_values[i] = extracted.value
       /\ \A i \in 1..Len(json_values) : DumpsLen(json_values[i]) <= DumpsLen(extracted.value)
       /\ response_text = <<"\n">> \o ExampleText => extracted.value = ValueAB

C22_Witness ==
    /\ parse_pc = "parsed"
    /\ think_content.text = <<>> /\ content = ExampleText
    /\ Len(extract_json_values(response_text)) = 2
    /\ extract_json_values(response_text)[1] # extracted.value
    /\ extracted.value = ValueAB

\* C23: extraction raises ValueError exactly when the cleaned reply holds no
\* parseable JSON value; the attempt then ends in the except clause with the
\* workspace, the tool records and the round counter as they were, and after
\* the backoff the model is called again with the prompt of the failed
\* attempt.
C23_NoJsonAbortsAndRetries ==
    /\ []((parse_pc \in {"parsed", "raised"} /\ ~think_content.isNone)
            => (extracted.raised = "ValueError" <=> extract_json_values(response_text) = <<>>))
    /\ [][ (pc = "model" /\ parse_pc = "raised" /\ extracted.raised = "ValueError")
           => ( /\ pc' = "sleep10" /\ failure' = "ValueError"
                /\ workspace' = workspace /\ tool_records' = tool_records
                /\ round' = round ) ]_vars
    /\ [][ (attempts # <<>> /\ attempts[Len(attempts)] = "ValueError" /\ pc # "model")
           => ( /\ pc' \in {"sleep20", "model"}
                /\ workspace' = workspace /\ tool_records' = tool_records
                /\ round' = round
                /\ pc' = "model" => prompt' = prompt ) ]_vars

C23_Witness ==
    /\ pc = "model" /\ modelCalls = 2 /\ round = 0
    /\ attempts = <<"ValueError">>
    /\ content = <<"x", "[">> /\ ~think_content.isNone
    /\ prompt = [workspace |-> to_string(NewWorkspace), tool_records |-> NoRecords]

\* The rendering of the workspace read back: the pieces of one block line
\* are "<", the id, ">", the content, "</", the id and ">\n".
IdLen == Len(CHOOSE id \in BlockIds : TRUE)
LineLen == 2 * IdLen + 5
NoBlocksMarker == "... no memory blocks ...\n"

RenderedBlocks(text) ==
    IF Len(text) = 4 /\ text[4] = NoBlocksMarker THEN <<>>
    ELSE [i \in 1..((Len(text) - 3) \div LineLen) |->
             [id |-> SubSeq(text, 3 + LineLen * (i - 1) + 2, 3 + LineLen * (i - 1) + 1 + IdLen),
              content |-> text[3 + LineLen * (i - 1) + IdLen + 3]]]

LineOf(text, i) == SubSeq(text, 3 + LineLen * (i - 1) + 1, 3 + LineLen * i)

DeletedIds(ops) ==
    { ops[i].id : i \in { j \in 1..Len(ops) : ops[j].operation = "delete" } }

\* C24: the rendering shown to the model is "Status: <status>\nMemory: \n"
\* followed by the no-blocks marker when the workspace holds no block and
\* otherwise by one line "<id>content</id>\n" per block, in the order of the
\* blocks; and the blocks that an update does not delete are rendered after
\* it with the id, the content and the relative order they had before it.
C24_RenderingFormatAndStability ==
    /\ [](pc = "model" =>
            LET text == prompt.workspace
                blocks == workspace.blocks IN
            /\ SubSeq(text, 1, 3) = <<"Status: ", workspace.status, "\nMemory: \n">>
            /\ blocks = <<>> => text = <<"Status: ", workspace.status, "\nMemory: \n", NoBlocksMarker>>
            /\ blocks # <<>> =>
                 /\ Len(text) = 3 + LineLen * Len(blocks)
                 /\ \A i \in 1..Len(blocks) :
                       LineOf(text, i) = <<"<">> \o blocks[i].id \o <<">", blocks[i].content, "</">>
                                         \o blocks[i].id \o <<">\n">>)
    /\ [][ (pc = "model" /\ response'.kind = "dict")
           => LET before == RenderedBlocks(to_string(workspace))
                  after == RenderedBlocks(to_string(workspace'))
                  gone == DeletedIds(response'.memory_updates) IN
              SelectSeq(after, LAMBDA b : b.id \in BlockIdsOf(before) \ gone)
                = SelectSeq(before, LAMBDA b : b.id \notin gone) ]_vars

C24_Witness ==
    /\ pc = "model" /\ round = 3 /\ modelCalls = 4
    /\ Len(RenderedBlocks(prompt.workspace)) = 2
    /\ RenderedBlocks(prompt.workspace)[1].content # RenderedBlocks(prompt.workspace)[2].content

\* C25: a run with loop = TRUE and a round limit of at least 1, under a
\* model that fails finitely often and otherwise returns valid responses,
\* eventually returns, also when no response ever leaves IN_PROGRESS (the
\* call budget of the model never holds the agent back).
C25_LimitedRunReturns ==
    /\ [](pc = "sleep20" => modelCalls < LiveCalls)
    /\ (pc \in {"sleep20", "model", "gather", "sleep10"}) ~> (pc = "returned")

C25_Witness ==
    /\ pc = "returned" /\ runs = 1 /\ max_rounds = 2
    /\ workspace.status = IN_PROGRESS
    /\ round = 3 /\ modelCalls = 3 + MaxFailures

\* C26: when the value selected from the reply is an array or the empty
\* object, the attempt ends in the except clause before update_blocks is
\* entered: the status, the blocks, the answer, the tool records and the
\* round counter are what they were when the model was called.
C26_NonObjectFailsBeforeUpdate ==
    [][ ( /\ pc = "model" /\ parse_pc = "parsed" /\ extracted.raised = None
          /\ \/ extracted.value.t = "arr"
             \/ extracted.value.t = "obj" /\ extracted.value.keys = <<>> )
        => ( /\ pc' = "sleep10"
             /\ failure' = (IF extracted.value.t = "arr" /\ extracted.value.items # <<>>
                              THEN "AttributeError" ELSE "AssertionError")
             /\ applied' = applied
             /\ workspace' = workspace /\ workspace' = round_start.workspace
             /\ tool_records' = tool_records /\ tool_records' = round_start.tool_records
             /\ round' = round ) ]_vars

C26_Witness ==
    /\ pc = "sleep10" /\ failure = "AttributeError"
    /\ extracted.value = ArrValue(<<NumValue(<<"1">>)>>)
    /\ workspace = NewWorkspace /\ round = 0 /\ applied = 0

C26_WitnessEmptyObject ==
    /\ pc = "sleep10" /\ failure = "AssertionError"
    /\ extracted.value = ObjValue(<<>>, <<>>)
    /\ workspace = NewWorkspace /\ round = 0 /\ applied = 0

\* The positions of text that hold "{" or "[" and where a JSON value parses,
\* with the value and the position after it.
Candidates(text) ==
    { p \in 1..Len(text) : text[p] \in {"{", "["} /\ raw_decode(text, p).ok }

\* The candidates the scan rule reaches: a candidate is collected exactly
\* when no collected candidate before it consumed its position.
CollectedStarts(text) ==
    LET cands == Candidates(text)
        ends == [p \in cands |-> raw_decode(text, p).end] IN
    CHOOSE S \in SUBSET cands :
        \A p \in cands : p \in S <=> \A q \in S : q < p => ends[q] <= p

RECURSIVE InOrder(_)
InOrder(S) ==
    IF S = {} THEN <<>>
    ELSE LET p == CHOOSE x \in S : \A y \in S : x <= y IN <<p>> \o InOrder(S \ {p})

\* C27: the values the scan yields are the values at the positions reached
\* by the rule "after a value, go on right after it; after a failed parse, go
\* on one character later", in the order of the text: a value nested in a
\* collected value is no candidate of its own, and a value nested in a
\* fragment that does not parse is collected.  The value selected from the
\* reply is one of them, and ValueError is raised when there is none.
C27_ScanRule ==
    (pc = "model" /\ parse_pc \in {"parsed", "raised"} /\ ~think_content.isNone)
    => LET starts == InOrder(CollectedStarts(response_text))
           json_values == [k \in 1..Len(starts) |-> raw_decode(response_text, starts[k]).value] IN
       /\ extract_json_values(response_text) = json_values
       /\ extracted.raised = "ValueError" <=> json_values = <<>>
       /\ parse_pc = "parsed" => \E k \in 1..Len(json_values) : extracted.value = json_values[k]

\* The reply '[{"status_update":"DONE","memory_updates":[],"tool_calls":[]}':
\* the outer "[" never closes, the object in it is collected and its two
\* arrays are not.
C27_Witness ==
    /\ pc = "model" /\ parse_pc = "parsed"
    /\ response_text = <<"\n", "[">> \o ObjDone
    /\ Cardinality(Candidates(response_text)) = 3
    /\ CollectedStarts(response_text) = {3}
    /\ Len(extract_json_values(response_text)) = 1
    /\ extracted.value.t = "obj"

\* C28: the prompt of an attempt shows the "no previous tool results" marker
\* in round 1 and only there; in every later round it shows the formatted
\* records of the round before.
C28_MarkerOnRoundOneOnly ==
    pc = "model"
    => LET shown == ToolResultsSection(prompt.tool_records) IN
       /\ round = 0 => shown = <<NoToolResultsMarker>>
       /\ round > 0 => /\ shown # <<NoToolResultsMarker>>
                       /\ shown = format_tool_results(tool_records.items)

\* C29: a run with loop = TRUE and max_rounds = 0 returns only when the
\* workspace has left IN_PROGRESS: every round that ends with the status
\* IN_PROGRESS is followed by another one, however many rounds were counted,
\* and a round that ends with another status is the last.
C29_ZeroMeansNoLimit ==
    [][ (loop /\ max_rounds = 0)
        => /\ (pc # "returned" /\ pc' = "returned") => workspace'.status # IN_PROGRESS
           /\ (pc = "gather" /\ round' = round + 1)
                => pc' = (IF workspace.status # IN_PROGRESS THEN "returned" ELSE "sleep20") ]_vars

C29_Witness ==
    /\ loop /\ max_rounds = 0 /\ runs = 1
    /\ pc = "sleep20" /\ round = 2
    /\ workspace.status = IN_PROGRESS

\* C30: on an agent that is only ever run with loop = FALSE, an invocation
\* starts from the workspace, the tool records and the round counter the
\* invocation before it left, its prompts are rendered from them, and each
\* invocation counts one round: during the n-th invocation the counter is
\* n - 1 and after it the counter is n.
C30_StatePersistsAcrossRuns ==
    /\ [](pc = "returned" => round = runs)
    /\ [](Running => round = runs - 1)
    /\ [][ (pc \in {"idle", "returned"})
           => ( /\ workspace' = workspace /\ tool_records' = tool_records
                /\ round' = round ) ]_vars
    /\ [][ (pc = "sleep20" /\ pc' = "model")
           => ( /\ prompt' = [workspace |-> to_string(workspace), tool_records |-> tool_records]
                /\ attempts = <<>> => ( /\ round_start'.workspace = workspace
                                        /\ round_start'.tool_records = tool_records ) ) ]_vars

C30_Witness ==
    /\ pc = "model" /\ runs = 3 /\ round = 2 /\ modelCalls = 3
    /\ workspace.blocks # <<>>
    /\ ~tool_records.isNone /\ tool_records.items # <<>>
    /\ prompt = [workspace |-> to_string(workspace), tool_records |-> tool_records]

\* C31: run returns only from the end of a round it performed itself: an
\* invocation goes to the model call whatever the workspace status and the
\* round counter are, and when it returns it has called the model, entered
\* update_blocks, dispatched and gathered the tool calls of the response and
\* counted the round -- also on an agent whose workspace was done already.
C31_StopsCheckedAfterRound ==
    /\ [][ (runs' # runs) => (pc \in {"idle", "returned"} /\ pc' = "sleep20") ]_vars
    /\ [][ (pc = "sleep20" /\ pc' # pc) => (pc' = "model" /\ modelCalls' = modelCalls + 1) ]_vars
    /\ [][ (pc # "returned" /\ pc' = "returned")
           => ( /\ pc = "gather"
                /\ round' = round + 1 /\ round' > round0
                /\ applied > round_start.applied
                /\ Len(tasks) = Len(response.tool_calls)
                /\ \A i \in 1..Len(tasks) : tasks[i].state = "done"
                /\ Len(tool_records'.items) = Len(tasks) ) ]_vars

C31_Witness ==
    /\ pc = "returned" /\ runs = 2 /\ loop
    /\ round0 = 1 /\ round = 2 /\ modelCalls >= 2
    /\ round_start.workspace.status = "DONE"
    /\ tool_records.items # <<>>

\* The webhook handler that a step received, and the record the handling
\* instance's memoryStorage held for its id.
Received(hs, n) == CHOOSE h \in hs : h.hid = n
StatusBefore(h) ==
    IF memoryStore[h.inst][h.id].present THEN memoryStore[h.inst][h.id].status ELSE "pending"

C32_WitnessNoId ==
    /\ events = 2 /\ postResponse.code = 400
    /\ memoryStore["i1"]["s1"].status = "running"

\* C33: a record whose status is completed, timeout or error keeps a status
\* among these under every later webhook event for its id.
C33_TerminalStatusSticks ==
    [][ \A i \in Instances, id \in SearchIds :
          (memoryStore[i][id].present /\ memoryStore[i][id].status \in TerminalStatuses)
          => memoryStore'[i][id].status \in TerminalStatuses ]_vars

\* The record of an instance's memoryStorage, with its iterations read.
MemoryRecord(i, id) ==
    IF memoryStore[i][id].present
      THEN Record(memoryStore[i][id].status, arrays[memoryStore[i][id].ref])
      ELSE NoRecord

\* C35: when the handlers of two webhook events for one id have both stored
\* their record in Redis and answered, Redis holds the record memoryStorage
\* holds, that of the event received last.
C35_RedisFollowsMemory ==
    (events = 2 /\ handlers = {} /\ Len(redisWrites) = 2)
    => \A id \in SearchIds : redisStore[id] = MemoryRecord("i1", id)

\* C37: a webhook POST with an id writes memoryStorage before it touches
\* another store; Vercel Blob is written only by a handler whose Redis write
\* threw; and every handler answers 200, also when both writes failed.
C37_MemoryFirstBlobOnFallback ==
    /\ [][ (events' = events + 1 /\ \E h \in handlers' : h.hid = events')
           => LET h == Received(handlers', events') IN
              /\ memoryStore'[h.inst][h.id].present
              /\ h.stage = "redis"
              /\ redisStore' = redisStore /\ blobStore' = blobStore ]_vars
    /\ [][ (blobStore' # blobStore)
           => \E h \in handlers :
                /\ h.stage = "blob" /\ h.hid \notin { redisWrites[k] : k \in 1..Len(redisWrites) }
                /\ redisWrites' = redisWrites ]_vars
    /\ [][ (redisStore' # redisStore) => (blobStore' = blobStore /\ handlers' # handlers) ]_vars
    /\ [][ \A h \in handlers :
             (\A g \in handlers' : g.hid # h.hid)
             => (postResponse'.hid = h.hid /\ postResponse'.code = 200) ]_vars

C37_Witness ==
    /\ postResponse.code = 200
    /\ postResponse.log = <<"memory", "redis", "blob", "lost">>
    /\ handlers = {}
    /\ \A id \in SearchIds : ~redisStore[id].present /\ ~blobStore[id].present
    /\ memoryStore["i1"]["s1"].present

\* The elements of a list.
Elements(list) == { list[k] : k \in 1..Len(list) }

\* C34: a search-status GET that follows 'iteration' events returns every
\* iteration an earlier GET returned for the id and every iteration pushed
\* since, whichever instance handled the events. The case is the one where
\* Redis stored the record of every event in the order of their arrival, no
\* handler is at work and no store failed under the GET.
C34_IterationsKept ==
    [][ ( /\ getter.pc \in {"redis", "blob"} /\ getter'.pc = "done" /\ getter'.code = 200
          /\ getter.quiet /\ getter'.failed = {}
          /\ redisWrites = [k \in 1..events |-> k] /\ ~otherSince
          /\ returned # NothingReturned )
        => (Elements(returned) \cup Elements(pushedSince))
              \subseteq Elements(getter'.data.iterations) ]_vars

\* C36: the search-status GET asks Redis first, Vercel Blob only when Redis
\* returned no record or threw, and memoryStorage only when Blob too returned
\* none or threw; it answers 200 with the first record it got, 404 when it
\* got none, and nothing else.
C36_ReadOrder ==
    /\ [][ (gets' = gets + 1) => (getter'.pc = "redis" /\ getter'.failed = {}) ]_vars
    /\ [][ (getter.pc = "redis" /\ getter'.pc # "redis")
           => IF getter'.pc = "done"
                THEN /\ redisStore[getter.id].present
                     /\ getter'.code = 200 /\ getter'.source = "redis"
                     /\ getter'.data = redisStore[getter.id]
                ELSE /\ getter'.pc = "blob"
                     /\ ~redisStore[getter.id].present \/ "redis" \in getter'.failed ]_vars
    /\ [][ (getter.pc = "blob" /\ getter'.pc # "blob")
           => /\ getter'.pc = "done"
              /\ IF getter'.source = "blob"
                   THEN /\ blobStore[getter.id].present
                        /\ getter'.code = 200 /\ getter'.data = blobStore[getter.id]
                 ELSE /\ ~blobStore[getter.id].present \/ "blob" \in getter'.failed
                      /\ IF memoryStore[getter.inst][getter.id].present
                           THEN /\ getter'.code = 200 /\ getter'.source = "memory"
                                /\ getter'.data = MemoryRecord(getter.inst, getter.id)
                           ELSE getter'.code = 404 /\ getter'.source = "none" ]_vars
    /\ [](getter.pc = "done" => getter.code \in {200, 404})

\* Redis and Blob both threw and the record came from memoryStorage.
C36_Witness ==
    /\ getter.pc = "done" /\ getter.code = 200 /\ getter.source = "memory"
    /\ getter.failed = {"redis", "blob"}
    /\ getter.data.present

\* C36 as stated: a 404 is answered only when Redis, Blob and memoryStorage
\* all hold no record for the id.
C36_NotFoundOnlyWithoutRecord ==
    [][ (getter.pc = "blob" /\ getter'.pc = "done" /\ getter'.code = 404 /\ getter.quiet)
        => /\ ~redisStore[getter.id].present
           /\ ~blobStore[getter.id].present
           /\ ~memoryStore[getter.inst][getter.id].present ]_vars

C38_WitnessRejected ==
    /\ posts = 2 /\ decisionGets = 0 /\ Len(timeouts) = 1
    /\ decisionResponse.code = 400 /\ decisionResponse.action = "stop"
    /\ userDecisions["s1"] = "finalize"

\* C39: the action a POST put in the Map leaves it only by a GET for the id,
\* by a later valid POST for the id, or by the callback that this POST set.
C39_RemovedByOwnTimeoutOnly ==
    [][ \A id \in SearchIds :
          (storedBy[id] # 0 /\ storedBy'[id] # storedBy[id])
          => \/ decisionGets' = decisionGets + 1 /\ decisionResponse'.id = id
             \/ posts' = posts + 1 /\ decisionResponse'.id = id
             \/ /\ timeouts # <<>> /\ timeouts' = Tail(timeouts)
                /\ Head(timeouts).post = storedBy[id] ]_vars

====
